---- MODULE Spec2Model ----
(***************************************************************************)
(* A model of the XDG base-directory resolution engine of rust-xdg         *)
(* (src/src/base_directories.rs): the BaseDirectories configuration built  *)
(* by with_env_impl, the runtime-directory guard, the get / place / find / *)
(* create / list operations and the double-ended FileFindIterator, run     *)
(* against a small model of a POSIX filesystem.                            *)
(*                                                                         *)
(* A path (PathBuf / OsString) is a sequence of tokens: the separator "/", *)
(* the list separator ":" (environment values only) and atomic names.      *)
(***************************************************************************)
EXTENDS Integers, Sequences, FiniteSets, TLC

VARIABLES
  cfg,   \* the BaseDirectories value (immutable after construction)
  fs,    \* the filesystem: [dirs: key -> st_mode, files: set of keys]
  op,    \* the most recent step: [name, cat, arg, ret]
  it,    \* the live FileFindIterator and what it has yielded so far
  hist   \* what earlier calls returned (for claims that relate two calls)

vars == <<cfg, fs, op, it, hist>>

----------------------------------------------------------------------------
(* Option<T>: a sequence of length 0 (None) or 1 (Some(x)).                *)
None == <<>>
Some(x) == <<x>>
IsSome(o) == Len(o) = 1

(* Bounds of the model.                                                    *)
MaxFiles == 2   \* regular files present in an initial filesystem
MaxOps == 2     \* filesystem-changing calls in one behaviour

----------------------------------------------------------------------------
(* std::path on Unix.                                                      *)
Sep == "/"
ListSep == ":"

is_absolute(p) == Len(p) > 0 /\ p[1] = Sep

\* PathBuf::push / Path::join: an absolute argument replaces the receiver;
\* otherwise a separator is added unless the receiver is empty or ends in one.
join(a, b) ==
  IF is_absolute(b) THEN b
  ELSE IF a = <<>> THEN b
  ELSE IF a[Len(a)] = Sep THEN a \o b
  ELSE a \o <<Sep>> \o b

IsName(t) == t # Sep
NotCurDir(t) == t # "."

\* Path::components: separators and interior "." vanish; a leading "." of a
\* relative path is kept (CurDir).
components(p) ==
  LET n == SelectSeq(p, IsName) IN
  IF ~is_absolute(p) /\ n # <<>> /\ n[1] = "."
    THEN <<".">> \o SelectSeq(Tail(n), NotCurDir)
    ELSE SelectSeq(n, NotCurDir)

\* PathBuf's Eq compares components (and rootedness), not bytes.
PathEq(a, b) == is_absolute(a) = is_absolute(b) /\ components(a) = components(b)

RECURSIVE Unparse(_, _)
Unparse(abs, c) ==
  IF c = <<>> THEN (IF abs THEN <<Sep>> ELSE <<>>)
  ELSE IF Len(c) = 1 THEN (IF abs THEN <<Sep, c[1]>> ELSE <<c[1]>>)
  ELSE Unparse(abs, SubSeq(c, 1, Len(c) - 1)) \o <<Sep, c[Len(c)]>>

\* Path::parent: None for "" and "/", else the path without its last component.
parent(p) ==
  LET c == components(p) IN
  IF c = <<>> THEN None
  ELSE Some(Unparse(is_absolute(p), SubSeq(c, 1, Len(c) - 1)))

\* Path::file_name: the last component when it is a normal name.
file_name(p) ==
  LET c == components(p) IN
  IF c = <<>> \/ c[Len(c)] = "." THEN None ELSE Some(c[Len(c)])

----------------------------------------------------------------------------
(* The filesystem.  A key is the sequence of names from the root; the root *)
(* <<>> is always a directory.  dirs maps each directory to its st_mode.   *)
Cwd == <<"w">>

Key(p) ==
  LET n == SelectSeq(SelectSeq(p, IsName), NotCurDir) IN
  IF is_absolute(p) THEN n ELSE Cwd \o n

S_IFDIR == 4 * 4096
S_IFREG == 8 * 4096
DefaultDirMode == S_IFDIR + 493   \* S_IFDIR | 0o755
FileMode == S_IFREG + 420         \* S_IFREG | 0o644

RECURSIVE BitAnd(_, _)
BitAnd(x, y) ==
  IF x = 0 \/ y = 0 THEN 0
  ELSE (x % 2) * (y % 2) + 2 * BitAnd(x \div 2, y \div 2)

\* The owner's bits of an st_mode: S_IRUSR, S_IWUSR, S_IXUSR.
OwnerR(m) == (m \div 256) % 2 = 1
OwnerW(m) == (m \div 128) % 2 = 1
OwnerX(m) == (m \div 64) % 2 = 1

IsDir(f, k) == k \in DOMAIN f.dirs
IsFile(f, k) == k \in f.files
Anc(k, i) == SubSeq(k, 1, i)

\* The path walk to k: the first proper ancestor that is missing, is not a
\* directory or may not be searched decides the error; "" when the walk succeeds.
WalkErr(f, k) ==
  LET bad == {i \in 0..(Len(k) - 1) : ~(IsDir(f, Anc(k, i)) /\ OwnerX(f.dirs[Anc(k, i)]))} IN
  IF bad = {} THEN ""
  ELSE LET m == CHOOSE i \in bad : \A j \in bad : i <= j IN
       IF IsFile(f, Anc(k, m)) THEN "NotADirectory"
       ELSE IF ~IsDir(f, Anc(k, m)) THEN "NotFound"
       ELSE "PermissionDenied"

TrailingSep(p) == Len(p) > 1 /\ p[Len(p)] = Sep

\* fs::metadata (stat, symlinks followed): [ok, err, mode].
fs_metadata(f, p) ==
  LET k == Key(p) IN
  IF p = <<>> THEN [ok |-> FALSE, err |-> "NotFound", mode |-> 0]
  ELSE IF WalkErr(f, k) # "" THEN [ok |-> FALSE, err |-> WalkErr(f, k), mode |-> 0]
  ELSE IF IsDir(f, k) THEN [ok |-> TRUE, err |-> "", mode |-> f.dirs[k]]
  ELSE IF IsFile(f, k) THEN
    (IF TrailingSep(p) THEN [ok |-> FALSE, err |-> "NotADirectory", mode |-> 0]
     ELSE [ok |-> TRUE, err |-> "", mode |-> FileMode])
  ELSE [ok |-> FALSE, err |-> "NotFound", mode |-> 0]

is_dir(f, p) == fs_metadata(f, p).ok /\ IsDir(f, Key(p))

\* fs::read_dir (opendir): needs a directory the owner may read; the entries
\* are the names directly below it.
fs_read_dir(f, p) ==
  LET md == fs_metadata(f, p)
      k == Key(p) IN
  IF ~md.ok THEN [ok |-> FALSE, err |-> md.err, entries |-> {}]
  ELSE IF ~IsDir(f, k) THEN [ok |-> FALSE, err |-> "NotADirectory", entries |-> {}]
  ELSE IF ~OwnerR(md.mode) THEN [ok |-> FALSE, err |-> "PermissionDenied", entries |-> {}]
  ELSE [ok |-> TRUE, err |-> "",
        entries |-> {e[Len(e)] : e \in {x \in (DOMAIN f.dirs) \cup f.files :
                                          Len(x) = Len(k) + 1 /\ Anc(x, Len(k)) = k}}]

\* mkdir(2): [err, fs]; err = "" when the directory was made.
mkdir(f, p) ==
  LET k == Key(p) IN
  IF p = <<>> THEN [err |-> "NotFound", fs |-> f]
  ELSE IF WalkErr(f, k) # "" THEN [err |-> WalkErr(f, k), fs |-> f]
  ELSE IF IsDir(f, k) \/ IsFile(f, k) THEN [err |-> "AlreadyExists", fs |-> f]
  ELSE IF ~OwnerW(f.dirs[Anc(k, Len(k) - 1)]) THEN [err |-> "PermissionDenied", fs |-> f]
  ELSE [err |-> "",
        fs |-> [f EXCEPT !.dirs = [d \in (DOMAIN f.dirs) \cup {k} |->
                                     IF d = k THEN DefaultDirMode ELSE f.dirs[d]]]]

\* fs::create_dir_all: [ok, err, fs].
RECURSIVE create_dir_all(_, _)
create_dir_all(f, p) ==
  IF p = <<>> THEN [ok |-> TRUE, err |-> "", fs |-> f]
  ELSE
    LET r1 == mkdir(f, p) IN
    IF r1.err = "" THEN [ok |-> TRUE, err |-> "", fs |-> r1.fs]
    ELSE IF r1.err # "NotFound" THEN
      (IF is_dir(f, p) THEN [ok |-> TRUE, err |-> "", fs |-> f]
       ELSE [ok |-> FALSE, err |-> r1.err, fs |-> f])
    ELSE
      LET par == parent(p) IN
      IF par = None THEN [ok |-> FALSE, err |-> "Other", fs |-> f]
      ELSE
        LET r2 == create_dir_all(f, par[1]) IN
        IF ~r2.ok THEN r2
        ELSE
          LET r3 == mkdir(r2.fs, p) IN
          IF r3.err = "" THEN [ok |-> TRUE, err |-> "", fs |-> r3.fs]
          ELSE IF is_dir(r2.fs, p) THEN [ok |-> TRUE, err |-> "", fs |-> r2.fs]
          ELSE [ok |-> FALSE, err |-> r3.err, fs |-> r2.fs]

----------------------------------------------------------------------------
(* Results.  Result<PathBuf, Error> and io::Result<PathBuf> share a record: *)
(* kind is the xdg ErrorKind ("Io" for a bare io::Error), val the path the  *)
(* value or error carries, perm the Permissions an Insecure error carries,  *)
(* io the io::ErrorKind (of the wrapped cause, or after From<Error>).       *)
Ok(v) == [ok |-> TRUE, val |-> v, kind |-> "Ok", perm |-> 0, io |-> ""]
Error(kind, path, perm, cause) ==
  [ok |-> FALSE, val |-> path, kind |-> kind, perm |-> perm, io |-> cause]
IoError(kind) == [ok |-> FALSE, val |-> <<>>, kind |-> "Io", perm |-> 0, io |-> kind]

\* impl From<Error> for io::Error
io_from(e) ==
  [e EXCEPT !.io = IF e.kind \in {"HomeMissing", "XdgRuntimeDirMissing"}
                     THEN "NotFound" ELSE "Other"]

\* What an operation hands back: its return value and the filesystem it leaves.
Out(ret, f) == [ret |-> ret, fs |-> f]

----------------------------------------------------------------------------
(* Construction: BaseDirectories::with_env_impl.                           *)
EnvVars == {"XDG_DATA_HOME", "XDG_CONFIG_HOME", "XDG_CACHE_HOME", "XDG_STATE_HOME",
            "XDG_DATA_DIRS", "XDG_CONFIG_DIRS", "XDG_RUNTIME_DIR"}

\* Variant: every value is taken, absolute or not.
abspath_any(path) == Some(path)

abspath(path) == IF is_absolute(path) THEN Some(path) ELSE None

\* env::split_paths: cut at every ":"; empty pieces are kept.
RECURSIVE split_paths(_)
split_paths(s) ==
  LET cut == {i \in 1..Len(s) : s[i] = ListSep} IN
  IF cut = {} THEN <<s>>
  ELSE LET i == CHOOSE j \in cut : \A k \in cut : j <= k IN
       <<SubSeq(s, 1, i - 1)>> \o split_paths(SubSeq(s, i + 1, Len(s)))

\* Variant: the entries are not filtered.
abspaths_unfiltered(paths) ==
  LET ps == split_paths(paths) IN
  IF ps = <<>> THEN None ELSE Some(ps)

abspaths(paths) ==
  LET ps == SelectSeq(split_paths(paths), is_absolute) IN
  IF ps = <<>> THEN None ELSE Some(ps)

\* Variant: the home default wins over the environment variable.
HomeRoot_home_first(env_var, name, home, sub) ==
  IF home # None THEN Some(join(home[1], sub))
  ELSE IF env_var[name] = None THEN None ELSE abspath(env_var[name][1])

\* Variant: without a home the default sub-path is used on its own.
HomeRoot_bare_default(env_var, name, home, sub) ==
  LET v == IF env_var[name] = None THEN None ELSE abspath(env_var[name][1]) IN
  IF v # None THEN v
  ELSE IF home = None THEN Some(sub)
  ELSE Some(join(home[1], sub))

\* env_var(name).and_then(abspath).or_else(|| home.map(|home| home.join(sub)))
HomeRoot(env_var, name, home, sub) ==
  LET v == IF env_var[name] = None THEN None ELSE abspath(env_var[name][1]) IN
  IF v # None THEN v
  ELSE IF home = None THEN None
  ELSE Some(join(home[1], sub))

\* env_var(name).and_then(abspaths).unwrap_or(default)
SystemDirs(env_var, name, default) ==
  LET v == IF env_var[name] = None THEN None ELSE abspaths(env_var[name][1]) IN
  IF v # None THEN v[1] ELSE default

\* os_home stands for std::env::home_dir(), consulted when `home` is empty.
with_env_impl(prefix, profile, home, env_var, os_home) ==
  LET h == IF home = <<>> THEN os_home ELSE Some(home) IN
  [home_dir |-> h,
   user_prefix |-> join(prefix, profile),
   shared_prefix |-> prefix,
   data_home |-> HomeRoot(env_var, "XDG_DATA_HOME", h, <<".local", Sep, "share">>),
   config_home |-> HomeRoot(env_var, "XDG_CONFIG_HOME", h, <<".config">>),
   cache_home |-> HomeRoot(env_var, "XDG_CACHE_HOME", h, <<".cache">>),
   state_home |-> HomeRoot(env_var, "XDG_STATE_HOME", h, <<".local", Sep, "state">>),
   data_dirs |-> SystemDirs(env_var, "XDG_DATA_DIRS",
                            << <<Sep, "usr", Sep, "local", Sep, "share">>,
                               <<Sep, "usr", Sep, "share">> >>),
   config_dirs |-> SystemDirs(env_var, "XDG_CONFIG_DIRS", << <<Sep, "etc", Sep, "xdg">> >>),
   runtime_dir |-> IF env_var["XDG_RUNTIME_DIR"] = None THEN None
                   ELSE abspath(env_var["XDG_RUNTIME_DIR"][1])]

\* fn with_env: the generic front of with_env_impl.
with_env(prefix, profile, home, env_var, os_home) ==
  with_env_impl(prefix, profile, home, env_var, os_home)

\* The public constructors.  env_var is the process environment
\* (env::var_os) and os_home what std::env::home_dir() answers in it.
new(env_var, os_home) == with_env(<<>>, <<>>, <<>>, env_var, os_home)
with_prefix(prefix, env_var, os_home) == with_env(prefix, <<>>, <<>>, env_var, os_home)
with_profile(prefix, profile, env_var, os_home) ==
  with_env(prefix, profile, <<>>, env_var, os_home)
with_home(home, env_var, os_home) == with_env(<<>>, <<>>, home, env_var, os_home)
with_home_prefix(home, prefix, env_var, os_home) ==
  with_env(prefix, <<>>, home, env_var, os_home)
with_home_profile(home, prefix, profile, env_var, os_home) ==
  with_env(prefix, profile, home, env_var, os_home)

----------------------------------------------------------------------------
(* The runtime directory guard.                                            *)
InsecureMask == 63   \* 0o077

\* Variant: only the "other" bits count as insecure.
get_runtime_directory_other_bits(b, f) ==
  IF b.runtime_dir # None THEN
    LET runtime_dir == b.runtime_dir[1]
        rd == fs_read_dir(f, runtime_dir)
        md == fs_metadata(f, runtime_dir) IN
    IF ~rd.ok THEN Out(Error("XdgRuntimeDirInaccessible", runtime_dir, 0, rd.err), f)
    ELSE IF ~md.ok THEN Out(Error("XdgRuntimeDirInaccessible", runtime_dir, 0, md.err), f)
    ELSE IF BitAnd(md.mode, 7) # 0
      THEN Out(Error("XdgRuntimeDirInsecure", runtime_dir, md.mode, ""), f)
    ELSE Out(Ok(runtime_dir), f)
  ELSE Out(Error("XdgRuntimeDirMissing", <<>>, 0, ""), f)

\* Variant: the permission bits are judged before the directory is read.
get_runtime_directory_mode_first(b, f) ==
  IF b.runtime_dir # None THEN
    LET runtime_dir == b.runtime_dir[1]
        rd == fs_read_dir(f, runtime_dir)
        md == fs_metadata(f, runtime_dir) IN
    IF md.ok /\ BitAnd(md.mode, InsecureMask) # 0
      THEN Out(Error("XdgRuntimeDirInsecure", runtime_dir, md.mode, ""), f)
    ELSE IF ~rd.ok THEN Out(Error("XdgRuntimeDirInaccessible", runtime_dir, 0, rd.err), f)
    ELSE IF ~md.ok THEN Out(Error("XdgRuntimeDirInaccessible", runtime_dir, 0, md.err), f)
    ELSE Out(Ok(runtime_dir), f)
  ELSE Out(Error("XdgRuntimeDirMissing", <<>>, 0, ""), f)

get_runtime_directory(b, f) ==
  IF b.runtime_dir # None THEN
    LET runtime_dir == b.runtime_dir[1]
        rd == fs_read_dir(f, runtime_dir)
        md == fs_metadata(f, runtime_dir) IN
    IF ~rd.ok THEN Out(Error("XdgRuntimeDirInaccessible", runtime_dir, 0, rd.err), f)
    ELSE IF ~md.ok THEN Out(Error("XdgRuntimeDirInaccessible", runtime_dir, 0, md.err), f)
    ELSE IF BitAnd(md.mode, InsecureMask) # 0
      THEN Out(Error("XdgRuntimeDirInsecure", runtime_dir, md.mode, ""), f)
    ELSE Out(Ok(runtime_dir), f)
  ELSE Out(Error("XdgRuntimeDirMissing", <<>>, 0, ""), f)

\* Variant: the answer fixed by the configuration alone.
has_runtime_directory_configured(b, f) == Out(b.runtime_dir # None, f)

has_runtime_directory(b, f) ==
  LET r == get_runtime_directory(b, f) IN Out(r.ret.ok, r.fs)

----------------------------------------------------------------------------
(* The free functions at the end of base_directories.rs.                   *)
\* Variant: only the base directory is created.
write_file_home_only(f, home, path) ==
  LET r == create_dir_all(f, home) IN
  IF ~r.ok THEN Out(IoError(r.err), r.fs)
  ELSE Out(Ok(join(home, path)), r.fs)

\* Variant: the whole joined path is created as a directory.
write_file_full_path(f, home, path) ==
  LET r == create_dir_all(f, join(home, path)) IN
  IF ~r.ok THEN Out(IoError(r.err), r.fs)
  ELSE Out(Ok(join(home, path)), r.fs)

write_file(f, home, path) ==
  LET par == parent(path)
      r == IF par # None THEN create_dir_all(f, join(home, par[1]))
           ELSE create_dir_all(f, home) IN
  IF ~r.ok THEN Out(IoError(r.err), r.fs)
  ELSE Out(Ok(join(home, path)), r.fs)

\* Variant: without a home the path is created relative to the working directory.
create_directory_without_home(f, home, path) ==
  LET full_path == IF home = None THEN path ELSE join(home[1], path)
      r == create_dir_all(f, full_path) IN
  IF ~r.ok THEN Out(IoError(r.err), r.fs)
  ELSE Out(Ok(full_path), r.fs)

\* Variant: only the parent of the joined path is created.
create_directory_parent_only(f, home, path) ==
  IF home = None THEN Out(io_from(Error("HomeMissing", <<>>, 0, "")), f)
  ELSE
    LET full_path == join(home[1], path)
        par == parent(full_path)
        r == create_dir_all(f, IF par = None THEN full_path ELSE par[1]) IN
    IF ~r.ok THEN Out(IoError(r.err), r.fs)
    ELSE Out(Ok(full_path), r.fs)

create_directory(f, home, path) ==
  IF home = None THEN Out(io_from(Error("HomeMissing", <<>>, 0, "")), f)
  ELSE
    LET full_path == join(home[1], path)
        r == create_dir_all(f, full_path) IN
    IF ~r.ok THEN Out(IoError(r.err), r.fs)
    ELSE Out(Ok(full_path), r.fs)

path_exists(f, path) == fs_metadata(f, path).ok

\* The `for dir in dirs.iter()` loop of read_file, from index i on.
RECURSIVE read_file_dirs(_, _, _, _, _)
read_file_dirs(f, dirs, shared_prefix, path, i) ==
  IF i > Len(dirs) THEN None
  ELSE LET full_path == join(join(dirs[i], shared_prefix), path) IN
       IF path_exists(f, full_path) THEN Some(full_path)
       ELSE read_file_dirs(f, dirs, shared_prefix, path, i + 1)

\* A variant that probes the system directories before the home directory.
read_file_system_first(f, home, dirs, user_prefix, shared_prefix, path) ==
  LET sys == read_file_dirs(f, dirs, shared_prefix, path, 1) IN
  IF sys # None THEN Out(sys, f)
  ELSE IF home # None /\ path_exists(f, join(join(home[1], user_prefix), path))
    THEN Out(Some(join(join(home[1], user_prefix), path)), f)
  ELSE Out(None, f)

\* Variant: the user prefix (profile included) applied to the system directories too.
read_file_profile_everywhere(f, home, dirs, user_prefix, shared_prefix, path) ==
  IF home # None /\ path_exists(f, join(join(home[1], user_prefix), path))
    THEN Out(Some(join(join(home[1], user_prefix), path)), f)
  ELSE Out(read_file_dirs(f, dirs, user_prefix, path, 1), f)

read_file(f, home, dirs, user_prefix, shared_prefix, path) ==
  IF home # None /\ path_exists(f, join(join(home[1], user_prefix), path))
    THEN Out(Some(join(join(home[1], user_prefix), path)), f)
  ELSE Out(read_file_dirs(f, dirs, shared_prefix, path, 1), f)

----------------------------------------------------------------------------
(* The public methods of BaseDirectories.  Each takes the configuration b, *)
(* the filesystem f it runs against and the caller's relative path.        *)
\* Variant: get_config_file creating the leading directories as place does.
get_config_file_placing(b, f, path) ==
  IF b.config_home = None THEN Out(None, f)
  ELSE LET r == write_file(f, b.config_home[1], join(b.user_prefix, path)) IN
       Out(IF r.ret.ok THEN Some(r.ret.val) ELSE None, r.fs)

\* Variant: the shared prefix used below the home-rooted directory.
get_config_file_shared_prefix(b, f, path) ==
  IF b.config_home = None THEN Out(None, f)
  ELSE Out(Some(join(b.config_home[1], join(b.shared_prefix, path))), f)

get_config_file(b, f, path) ==
  IF b.config_home = None THEN Out(None, f)
  ELSE Out(Some(join(b.config_home[1], join(b.user_prefix, path))), f)

get_data_file(b, f, path) ==
  IF b.data_home = None THEN Out(None, f)
  ELSE Out(Some(join(b.data_home[1], join(b.user_prefix, path))), f)

get_cache_file(b, f, path) ==
  IF b.cache_home = None THEN Out(None, f)
  ELSE Out(Some(join(b.cache_home[1], join(b.user_prefix, path))), f)

get_state_file(b, f, path) ==
  IF b.state_home = None THEN Out(None, f)
  ELSE Out(Some(join(b.state_home[1], join(b.user_prefix, path))), f)

get_runtime_file(b, f, path) ==
  LET g == get_runtime_directory(b, f) IN
  IF ~g.ret.ok THEN Out(io_from(g.ret), g.fs)
  ELSE Out(Ok(join(g.ret.val, join(b.user_prefix, path))), g.fs)

place_config_file(b, f, path) ==
  IF b.config_home = None THEN Out(io_from(Error("HomeMissing", <<>>, 0, "")), f)
  ELSE write_file(f, b.config_home[1], join(b.user_prefix, path))

\* Variant: the data file placed below the shared prefix.
place_data_file_shared_prefix(b, f, path) ==
  IF b.data_home = None THEN Out(io_from(Error("HomeMissing", <<>>, 0, "")), f)
  ELSE write_file(f, b.data_home[1], join(b.shared_prefix, path))

place_data_file(b, f, path) ==
  IF b.data_home = None THEN Out(io_from(Error("HomeMissing", <<>>, 0, "")), f)
  ELSE write_file(f, b.data_home[1], join(b.user_prefix, path))

place_cache_file(b, f, path) ==
  IF b.cache_home = None THEN Out(io_from(Error("HomeMissing", <<>>, 0, "")), f)
  ELSE write_file(f, b.cache_home[1], join(b.user_prefix, path))

place_state_file(b, f, path) ==
  IF b.state_home = None THEN Out(io_from(Error("HomeMissing", <<>>, 0, "")), f)
  ELSE write_file(f, b.state_home[1], join(b.user_prefix, path))

\* Variant: the directory used without asking the guard.
place_runtime_file_unguarded(b, f, path) ==
  IF b.runtime_dir = None THEN Out(io_from(Error("XdgRuntimeDirMissing", <<>>, 0, "")), f)
  ELSE write_file(f, b.runtime_dir[1], join(b.user_prefix, path))

place_runtime_file(b, f, path) ==
  LET g == get_runtime_directory(b, f) IN
  IF ~g.ret.ok THEN Out(io_from(g.ret), g.fs)
  ELSE write_file(g.fs, g.ret.val, join(b.user_prefix, path))

find_config_file(b, f, path) ==
  read_file(f, b.config_home, b.config_dirs, b.user_prefix, b.shared_prefix, path)
find_data_file(b, f, path) ==
  read_file(f, b.data_home, b.data_dirs, b.user_prefix, b.shared_prefix, path)
\* Variant: the cache lookup falling back to the system data directories.
find_cache_file_data_dirs(b, f, path) ==
  read_file(f, b.cache_home, b.data_dirs, b.user_prefix, b.shared_prefix, path)

find_cache_file(b, f, path) ==
  read_file(f, b.cache_home, <<>>, b.user_prefix, b.shared_prefix, path)
find_state_file(b, f, path) ==
  read_file(f, b.state_home, <<>>, b.user_prefix, b.shared_prefix, path)

\* A variant that skips the guard and probes the configured directory as it is.
find_runtime_file_unguarded(b, f, path) ==
  IF b.runtime_dir = None THEN Out(None, f)
  ELSE read_file(f, b.runtime_dir, <<>>, b.user_prefix, b.shared_prefix, path)

\* Variant: the lookup creating the leading directories as place does.
find_runtime_file_placing(b, f, path) ==
  LET r == place_runtime_file(b, f, path) IN
  Out(IF r.ret.ok /\ path_exists(r.fs, r.ret.val) THEN Some(r.ret.val) ELSE None, r.fs)

find_runtime_file(b, f, path) ==
  LET g == get_runtime_directory(b, f) IN
  IF ~g.ret.ok THEN Out(None, g.fs)
  ELSE read_file(g.fs, Some(g.ret.val), <<>>, b.user_prefix, b.shared_prefix, path)

create_config_directory(b, f, path) ==
  create_directory(f, b.config_home, join(b.user_prefix, path))

create_data_directory(b, f, path) ==
  create_directory(f, b.data_home, join(b.user_prefix, path))

create_cache_directory(b, f, path) ==
  create_directory(f, b.cache_home, join(b.user_prefix, path))

create_state_directory(b, f, path) ==
  create_directory(f, b.state_home, join(b.user_prefix, path))

create_runtime_directory(b, f, path) ==
  LET g == get_runtime_directory(b, f) IN
  IF ~g.ret.ok THEN Out(io_from(g.ret), g.fs)
  ELSE create_directory(g.fs, Some(g.ret.val), join(b.user_prefix, path))

get_data_home(b, f) ==
  Out(IF b.data_home = None THEN None ELSE Some(join(b.data_home[1], b.user_prefix)), f)
get_config_home(b, f) ==
  Out(IF b.config_home = None THEN None ELSE Some(join(b.config_home[1], b.user_prefix)), f)
get_cache_home(b, f) ==
  Out(IF b.cache_home = None THEN None ELSE Some(join(b.cache_home[1], b.user_prefix)), f)
get_state_home(b, f) ==
  Out(IF b.state_home = None THEN None ELSE Some(join(b.state_home[1], b.user_prefix)), f)

get_data_dirs(b, f) ==
  Out([i \in 1..Len(b.data_dirs) |-> join(b.data_dirs[i], b.shared_prefix)], f)
get_config_dirs(b, f) ==
  Out([i \in 1..Len(b.config_dirs) |-> join(b.config_dirs[i], b.shared_prefix)], f)

----------------------------------------------------------------------------
(* FileFindIterator: search_dirs is what is left of the vec::IntoIter.     *)
Reverse(s) == [i \in 1..Len(s) |-> s[Len(s) + 1 - i]]

\* Variant: the system directories pushed in stored order.
FileFindIterator_new_stored_order(home, dirs, user_prefix, shared_prefix, path) ==
  LET sys == [i \in 1..Len(dirs) |-> join(dirs[i], shared_prefix)] IN
  [search_dirs |-> IF home # None THEN Append(sys, join(home[1], user_prefix)) ELSE sys,
   relpath |-> path]

FileFindIterator_new(home, dirs, user_prefix, shared_prefix, path) ==
  LET rev == Reverse(dirs)
      sys == [i \in 1..Len(rev) |-> join(rev[i], shared_prefix)] IN
  [search_dirs |-> IF home # None THEN Append(sys, join(home[1], user_prefix)) ELSE sys,
   relpath |-> path]

\* Variant: next leaving a directory whose candidate is missing in the list.
FileFindIterator_next_keep_missing(f, search_dirs, relpath) ==
  IF search_dirs = <<>> THEN [ret |-> None, search_dirs |-> <<>>]
  ELSE LET candidate == join(Head(search_dirs), relpath) IN
       IF path_exists(f, candidate)
         THEN [ret |-> Some(candidate), search_dirs |-> Tail(search_dirs)]
       ELSE [ret |-> None, search_dirs |-> search_dirs]

\* next / next_back: [ret, search_dirs], the loop run to its return.
RECURSIVE FileFindIterator_next(_, _, _)
FileFindIterator_next(f, search_dirs, relpath) ==
  IF search_dirs = <<>> THEN [ret |-> None, search_dirs |-> <<>>]
  ELSE LET candidate == join(Head(search_dirs), relpath) IN
       IF path_exists(f, candidate)
         THEN [ret |-> Some(candidate), search_dirs |-> Tail(search_dirs)]
       ELSE FileFindIterator_next(f, Tail(search_dirs), relpath)

\* Variant: next_back taking from the front end.
FileFindIterator_next_back_from_front(f, search_dirs, relpath) ==
  FileFindIterator_next(f, search_dirs, relpath)

\* Variant: next_back giving up at the first candidate that is missing.
FileFindIterator_next_back_first_only(f, search_dirs, relpath) ==
  IF search_dirs = <<>> THEN [ret |-> None, search_dirs |-> <<>>]
  ELSE LET n == Len(search_dirs)
           candidate == join(search_dirs[n], relpath) IN
       [ret |-> IF path_exists(f, candidate) THEN Some(candidate) ELSE None,
        search_dirs |-> SubSeq(search_dirs, 1, n - 1)]

RECURSIVE FileFindIterator_next_back(_, _, _)
FileFindIterator_next_back(f, search_dirs, relpath) ==
  IF search_dirs = <<>> THEN [ret |-> None, search_dirs |-> <<>>]
  ELSE LET n == Len(search_dirs)
           candidate == join(search_dirs[n], relpath) IN
       IF path_exists(f, candidate)
         THEN [ret |-> Some(candidate), search_dirs |-> SubSeq(search_dirs, 1, n - 1)]
       ELSE FileFindIterator_next_back(f, SubSeq(search_dirs, 1, n - 1), relpath)

find_config_files(b, path) ==
  FileFindIterator_new(b.config_home, b.config_dirs, b.user_prefix, b.shared_prefix, path)
find_data_files(b, path) ==
  FileFindIterator_new(b.data_home, b.data_dirs, b.user_prefix, b.shared_prefix, path)

----------------------------------------------------------------------------
(* Listing.  The order in which read_dir returns the entries of one        *)
(* directory is the operating system's: ord, a sequence of names, is that  *)
(* order.                                                                  *)
read_dir_into(f, dir, ord) ==
  LET rd == fs_read_dir(f, dir)
      names == SelectSeq(ord, LAMBDA n : n \in rd.entries) IN
  IF rd.ok THEN [i \in 1..Len(names) |-> join(dir, <<names[i]>>)] ELSE <<>>

RECURSIVE list_files_dirs(_, _, _, _, _, _)
list_files_dirs(f, dirs, shared_prefix, path, ord, i) ==
  IF i > Len(dirs) THEN <<>>
  ELSE read_dir_into(f, join(join(dirs[i], shared_prefix), path), ord)
         \o list_files_dirs(f, dirs, shared_prefix, path, ord, i + 1)

\* Variant: the system directories are read before the home directory.
list_files_system_first(f, home, dirs, user_prefix, shared_prefix, path, ord) ==
  list_files_dirs(f, dirs, shared_prefix, path, ord, 1)
    \o (IF home # None THEN read_dir_into(f, join(join(home[1], user_prefix), path), ord)
        ELSE <<>>)

list_files(f, home, dirs, user_prefix, shared_prefix, path, ord) ==
  (IF home # None THEN read_dir_into(f, join(join(home[1], user_prefix), path), ord)
   ELSE <<>>)
    \o list_files_dirs(f, dirs, shared_prefix, path, ord, 1)

\* The filter of list_files_once: seen is the HashSet of file names.
RECURSIVE once_filter(_, _)
once_filter(files, seen) ==
  IF files = <<>> THEN <<>>
  ELSE LET filename == file_name(Head(files)) IN
       IF filename = None THEN once_filter(Tail(files), seen)
       ELSE IF filename[1] \in seen THEN once_filter(Tail(files), seen)
       ELSE <<Head(files)>> \o once_filter(Tail(files), seen \cup {filename[1]})

\* Variant: nothing is filtered out.
list_files_once_unfiltered(f, home, dirs, user_prefix, shared_prefix, path, ord) ==
  list_files(f, home, dirs, user_prefix, shared_prefix, path, ord)

list_files_once(f, home, dirs, user_prefix, shared_prefix, path, ord) ==
  once_filter(list_files(f, home, dirs, user_prefix, shared_prefix, path, ord), {})

list_config_files(b, f, path, ord) ==
  Out(list_files(f, b.config_home, b.config_dirs, b.user_prefix, b.shared_prefix, path, ord), f)
list_config_files_once(b, f, path, ord) ==
  Out(list_files_once(f, b.config_home, b.config_dirs, b.user_prefix, b.shared_prefix,
                      path, ord), f)
list_data_files(b, f, path, ord) ==
  Out(list_files(f, b.data_home, b.data_dirs, b.user_prefix, b.shared_prefix, path, ord), f)
list_data_files_once(b, f, path, ord) ==
  Out(list_files_once(f, b.data_home, b.data_dirs, b.user_prefix, b.shared_prefix,
                      path, ord), f)
list_cache_files(b, f, path, ord) ==
  Out(list_files(f, b.cache_home, <<>>, b.user_prefix, b.shared_prefix, path, ord), f)
list_state_files(b, f, path, ord) ==
  Out(list_files(f, b.state_home, <<>>, b.user_prefix, b.shared_prefix, path, ord), f)

list_runtime_files(b, f, path, ord) ==
  LET g == get_runtime_directory(b, f) IN
  IF g.ret.ok
    THEN Out(list_files(g.fs, Some(g.ret.val), <<>>, b.user_prefix, b.shared_prefix, path, ord),
             g.fs)
  ELSE Out(<<>>, g.fs)

----------------------------------------------------------------------------
(* Dispatch on the category, for the actions below.                        *)
HomeCats == {"config", "data", "cache", "state"}
ListCats == {"config", "data"}

HomeOf(b, cat) ==
  CASE cat = "config" -> b.config_home
    [] cat = "data" -> b.data_home
    [] cat = "cache" -> b.cache_home
    [] cat = "state" -> b.state_home
    [] cat = "runtime" -> b.runtime_dir

DirsOf(b, cat) ==
  CASE cat = "config" -> b.config_dirs
    [] cat = "data" -> b.data_dirs
    [] OTHER -> <<>>

get_file(b, f, cat, p) ==
  CASE cat = "config" -> get_config_file(b, f, p)
    [] cat = "data" -> get_data_file(b, f, p)
    [] cat = "cache" -> get_cache_file(b, f, p)
    [] cat = "state" -> get_state_file(b, f, p)

place_file(b, f, cat, p) ==
  CASE cat = "config" -> place_config_file(b, f, p)
    [] cat = "data" -> place_data_file(b, f, p)
    [] cat = "cache" -> place_cache_file(b, f, p)
    [] cat = "state" -> place_state_file(b, f, p)

find_file(b, f, cat, p) ==
  CASE cat = "config" -> find_config_file(b, f, p)
    [] cat = "data" -> find_data_file(b, f, p)
    [] cat = "cache" -> find_cache_file(b, f, p)
    [] cat = "state" -> find_state_file(b, f, p)

create_dir(b, f, cat, p) ==
  CASE cat = "config" -> create_config_directory(b, f, p)
    [] cat = "data" -> create_data_directory(b, f, p)
    [] cat = "cache" -> create_cache_directory(b, f, p)
    [] cat = "state" -> create_state_directory(b, f, p)

place_any(b, f, cat, p) ==
  IF cat = "runtime" THEN place_runtime_file(b, f, p) ELSE place_file(b, f, cat, p)

create_any(b, f, cat, p) ==
  IF cat = "runtime" THEN create_runtime_directory(b, f, p) ELSE create_dir(b, f, cat, p)

get_home(b, f, cat) ==
  CASE cat = "config" -> get_config_home(b, f)
    [] cat = "data" -> get_data_home(b, f)
    [] cat = "cache" -> get_cache_home(b, f)
    [] cat = "state" -> get_state_home(b, f)

get_dirs(b, f, cat) ==
  CASE cat = "config" -> get_config_dirs(b, f)
    [] cat = "data" -> get_data_dirs(b, f)

list_X_files(b, f, cat, p, ord) ==
  CASE cat = "config" -> list_config_files(b, f, p, ord)
    [] cat = "data" -> list_data_files(b, f, p, ord)
    [] cat = "cache" -> list_cache_files(b, f, p, ord)
    [] cat = "state" -> list_state_files(b, f, p, ord)

list_X_files_once(b, f, cat, p, ord) ==
  CASE cat = "config" -> list_config_files_once(b, f, p, ord)
    [] cat = "data" -> list_data_files_once(b, f, p, ord)

find_files(b, cat, p) ==
  CASE cat = "config" -> find_config_files(b, p)
    [] cat = "data" -> find_data_files(b, p)

----------------------------------------------------------------------------
(* Inputs: the constructor's arguments, the environment, the caller's      *)
(* relative paths, and the filesystems the program may start in.           *)
Args == { <<"f">>, <<"d", Sep, "f">>, <<Sep, "x">> }
ArgsPlace == Args \cup { <<>> }
ArgsList == { <<>>, <<"d">> }

PrefixProfiles == { << <<>>, <<>> >>, << <<"app">>, <<"p1">> >> }
Homes == { <<>>, <<Sep, "h">> }

EnvNone == [v \in EnvVars |-> None]
EnvGood ==
  [v \in EnvVars |->
     CASE v = "XDG_CONFIG_HOME" -> Some(<<Sep, "c">>)
       [] v = "XDG_CONFIG_DIRS" -> Some(<<Sep, "A", ListSep, Sep, "B">>)
       [] v = "XDG_DATA_DIRS" -> Some(<<Sep, "D", ListSep, "rel", ListSep, Sep, "A">>)
       [] v = "XDG_RUNTIME_DIR" -> Some(<<Sep, "run">>)
       [] OTHER -> None]
Envs == {EnvNone, EnvGood}

Configs ==
  {with_env_impl(pp[1], pp[2], h, e, None) : pp \in PrefixProfiles, h \in Homes, e \in Envs}

Range(q) == {q[i] : i \in 1..Len(q)}

\* Every path a find can probe.
ProbeArgs == Args
Candidates(b) ==
  {join(join(HomeOf(b, c)[1], b.user_prefix), p) :
     c \in {x \in HomeCats \cup {"runtime"} : HomeOf(b, x) # None}, p \in ProbeArgs}
  \cup {join(join(d, b.shared_prefix), p) :
     d \in Range(b.config_dirs) \cup Range(b.data_dirs), p \in ProbeArgs}

IsPrefix(a, k) == Len(a) <= Len(k) /\ Anc(k, Len(a)) = a
RuntimeKey(b) == Key(b.runtime_dir[1])

\* The sets of at most n elements of U.
RECURSIVE UpTo(_, _)
UpTo(U, n) ==
  IF n = 0 THEN {{}}
  ELSE LET prev == UpTo(U, n - 1) IN prev \cup {S \cup {x} : S \in prev, x \in U}

\* Sets of regular files that can coexist: none lies below another.
FileSets(b) ==
  {F \in UpTo({Key(c) : c \in Candidates(b)}, MaxFiles) :
     \A x \in F, y \in F : x # y => ~IsPrefix(x, y)}

\* What may stand at the runtime directory's path: nothing, a regular file,
\* or a directory with one of these st_modes.
\* (0o700, 0o770, 0o707, 0o500, 0o370)
RuntimeModes == {S_IFDIR + 448, S_IFDIR + 504, S_IFDIR + 455, S_IFDIR + 320, S_IFDIR + 248}
RuntimeAbsent == [kind |-> "absent", mode |-> 0]
RuntimeStates ==
  {RuntimeAbsent, [kind |-> "file", mode |-> 0]}
    \cup {[kind |-> "dir", mode |-> m] : m \in RuntimeModes}
RuntimeFew ==
  {RuntimeAbsent, [kind |-> "dir", mode |-> S_IFDIR + 448], [kind |-> "dir", mode |-> S_IFDIR + 504]}

\* The filesystem holding the files F (and the directories above them) and
\* rt at the runtime directory's path.
MkFS(b, F, rt) ==
  LET rk == IF b.runtime_dir # None /\ rt.kind # "absent" THEN {RuntimeKey(b)} ELSE {}
      leaves == F \cup rk \cup {Cwd}
      fl == F \cup (IF rt.kind = "file" THEN rk ELSE {})
      ds == UNION {{Anc(k, i) : i \in 0..Len(k)} : k \in leaves} \ fl
  IN [dirs |-> [d \in ds |-> IF d \in rk THEN rt.mode ELSE DefaultDirMode],
      files |-> fl]

\* Files below the runtime directory need it to be a directory.
Compatible(b, F, rt) ==
  b.runtime_dir = None \/ rt.kind = "dir" \/ \A x \in F : ~IsPrefix(RuntimeKey(b), x)

InitFS(b, rts) ==
  {MkFS(b, pr[1], pr[2]) :
     pr \in {q \in FileSets(b) \X (IF b.runtime_dir = None THEN {RuntimeAbsent} ELSE rts) :
              Compatible(b, q[1], q[2])}}

\* A filesystem is well formed when everything in it hangs below directories.
WellFormed(f) ==
  /\ <<>> \in DOMAIN f.dirs
  /\ f.files \cap DOMAIN f.dirs = {}
  /\ \A k \in (DOMAIN f.dirs) \cup f.files :
       \A i \in 0..(Len(k) - 1) : Anc(k, i) \in DOMAIN f.dirs

----------------------------------------------------------------------------
(* The state machine.                                                      *)
Idle == [name |-> "init", cat |-> "", arg |-> <<>>, ret |-> <<>>]
NoIter == [active |-> FALSE, cat |-> "", search_dirs |-> <<>>, relpath |-> <<>>,
           front |-> <<>>, back |-> <<>>, ended |-> FALSE]
NoHist == [has |-> {}, n |-> 0]

Call(name, cat, p, r) ==
  /\ op' = [name |-> name, cat |-> cat, arg |-> p, ret |-> r.ret]
  /\ fs' = r.fs

\* The orders read_dir may return entries in.
NameOrder == <<"app", "p1", "d", "f", "x", "A", "B", "D", "c", "h", "run", "rel", "w",
               ".config", ".local", ".cache", "share", "state", "etc", "xdg", "usr", "local">>
Orders == {NameOrder, Reverse(NameOrder)}

FindFile ==
  \E cat \in HomeCats, p \in Args :
    /\ Call("find_file", cat, p, find_file(cfg, fs, cat, p))
    /\ UNCHANGED <<cfg, it, hist>>

FindRuntimeFile ==
  \E p \in Args :
    /\ Call("find_runtime_file", "runtime", p, find_runtime_file(cfg, fs, p))
    /\ UNCHANGED <<cfg, it, hist>>

ListRuntimeFiles ==
  \E p \in ArgsList, ord \in Orders :
    /\ Call("list_runtime_files", "runtime", p, list_runtime_files(cfg, fs, p, ord))
    /\ UNCHANGED <<cfg, it, hist>>

(* Spec: the lookups, run against every initial filesystem.                *)
Init ==
  /\ cfg \in Configs
  /\ fs \in InitFS(cfg, RuntimeFew)
  /\ op = Idle
  /\ it = NoIter
  /\ hist = NoHist

Next == FindFile \/ FindRuntimeFile \/ ListRuntimeFiles

Spec == Init /\ [][Next]_vars

FsWellFormed == WellFormed(fs)

----------------------------------------------------------------------------
(* SpecIter: one FileFindIterator, driven from both ends.  front and back  *)
(* are what next and next_back have yielded so far, ended is set by the    *)
(* first call that returns None.                                           *)
FindFilesNew ==
  \E cat \in ListCats, p \in Args :
    /\ ~it.active
    /\ LET i == find_files(cfg, cat, p) IN
         it' = [active |-> TRUE, cat |-> cat, search_dirs |-> i.search_dirs,
                relpath |-> i.relpath, front |-> <<>>, back |-> <<>>, ended |-> FALSE]
    /\ op' = [name |-> "find_files", cat |-> cat, arg |-> p, ret |-> <<>>]
    /\ UNCHANGED <<cfg, fs, hist>>

IterNext ==
  /\ it.active /\ ~it.ended
  /\ LET r == FileFindIterator_next(fs, it.search_dirs, it.relpath) IN
       /\ it' = [it EXCEPT !.search_dirs = r.search_dirs,
                           !.front = IF IsSome(r.ret) THEN Append(@, r.ret[1]) ELSE @,
                           !.ended = ~IsSome(r.ret)]
       /\ op' = [name |-> "next", cat |-> it.cat, arg |-> it.relpath, ret |-> r.ret]
  /\ UNCHANGED <<cfg, fs, hist>>

IterNextBack ==
  /\ it.active /\ ~it.ended
  /\ LET r == FileFindIterator_next_back(fs, it.search_dirs, it.relpath) IN
       /\ it' = [it EXCEPT !.search_dirs = r.search_dirs,
                           !.back = IF IsSome(r.ret) THEN Append(@, r.ret[1]) ELSE @,
                           !.ended = ~IsSome(r.ret)]
       /\ op' = [name |-> "next_back", cat |-> it.cat, arg |-> it.relpath, ret |-> r.ret]
  /\ UNCHANGED <<cfg, fs, hist>>

InitIter ==
  /\ cfg \in Configs
  /\ fs \in InitFS(cfg, {RuntimeAbsent})
  /\ op = Idle
  /\ it = NoIter
  /\ hist = NoHist

NextIter == FindFilesNew \/ IterNext \/ IterNextBack

SpecIter == InitIter /\ [][NextIter]_vars

----------------------------------------------------------------------------
(* SpecRuntime: the guard and the operations behind it, while the          *)
(* environment removes, replaces and chmods the runtime directory.         *)
RuntimeFileSets(b) ==
  IF b.runtime_dir = None THEN {{}}
  ELSE {F \in FileSets(b) : \A k \in F : IsPrefix(RuntimeKey(b), k)}

InitFSRuntime(b) ==
  {MkFS(b, pr[1], pr[2]) :
     pr \in {q \in RuntimeFileSets(b) \X (IF b.runtime_dir = None THEN {RuntimeAbsent}
                                           ELSE RuntimeStates) :
              Compatible(b, q[1], q[2])}}

\* The filesystem after the environment put rt at key k (rm -r, touch, mkdir
\* or chmod by another process).
SetRuntime(f, k, rt) ==
  LET below(x) == IsPrefix(k, x) /\ x # k
      keep == {d \in DOMAIN f.dirs : ~below(d) \/ rt.kind = "dir"} \ {k}
      ds == IF rt.kind = "dir" THEN keep \cup {k} ELSE keep
      fl0 == {x \in f.files : ~below(x) \/ rt.kind = "dir"} \ {k}
  IN [dirs |-> [d \in ds |-> IF d = k THEN rt.mode ELSE f.dirs[d]],
      files |-> IF rt.kind = "file" THEN fl0 \cup {k} ELSE fl0]

ExtSetRuntime ==
  \E rt \in RuntimeStates :
    /\ cfg.runtime_dir # None
    /\ fs' = SetRuntime(fs, RuntimeKey(cfg), rt)
    /\ fs' # fs
    /\ op' = [name |-> "ext", cat |-> "runtime", arg |-> <<>>, ret |-> <<>>]
    /\ UNCHANGED <<cfg, it, hist>>

GetRuntimeDirectory ==
  /\ Call("get_runtime_directory", "runtime", <<>>, get_runtime_directory(cfg, fs))
  /\ UNCHANGED <<cfg, it, hist>>

HasRuntimeDirectory ==
  LET r == has_runtime_directory(cfg, fs) IN
  /\ Call("has_runtime_directory", "runtime", <<>>, r)
  /\ hist' = [hist EXCEPT !.has = @ \cup {r.ret}]
  /\ UNCHANGED <<cfg, it>>

GetRuntimeFile ==
  \E p \in Args :
    /\ Call("get_runtime_file", "runtime", p, get_runtime_file(cfg, fs, p))
    /\ UNCHANGED <<cfg, it, hist>>

PlaceRuntimeFile ==
  \E p \in ArgsPlace :
    /\ Call("place_runtime_file", "runtime", p, place_runtime_file(cfg, fs, p))
    /\ UNCHANGED <<cfg, it, hist>>

CreateRuntimeDirectory ==
  \E p \in ArgsPlace :
    /\ Call("create_runtime_directory", "runtime", p, create_runtime_directory(cfg, fs, p))
    /\ UNCHANGED <<cfg, it, hist>>

InitRuntime ==
  /\ cfg \in Configs
  /\ fs \in InitFSRuntime(cfg)
  /\ op = Idle
  /\ it = NoIter
  /\ hist = NoHist

NextRuntime ==
  \/ ExtSetRuntime
  \/ GetRuntimeDirectory
  \/ HasRuntimeDirectory
  \/ GetRuntimeFile
  \/ PlaceRuntimeFile
  \/ CreateRuntimeDirectory

SpecRuntime == InitRuntime /\ [][NextRuntime]_vars

----------------------------------------------------------------------------
(* SpecPaths: up to MaxOps calls of get_X, place_X, create_X_directory and *)
(* find_X against filesystems holding at most one regular file, which may  *)
(* sit where a category root should be.                                    *)
HomeRootKeys(b) == {Key(HomeOf(b, c)[1]) : c \in {x \in HomeCats : HomeOf(b, x) # None}}

PathsFileSets(b) ==
  {F \in FileSets(b) : Cardinality(F) <= 1} \cup {{k} : k \in HomeRootKeys(b)}

InitFSPaths(b) == {MkFS(b, F, RuntimeAbsent) : F \in PathsFileSets(b)}

Counted ==
  /\ hist.n < MaxOps
  /\ hist' = [hist EXCEPT !.n = @ + 1]

GetFile ==
  \E cat \in HomeCats, p \in ArgsPlace :
    /\ Counted
    /\ Call("get_file", cat, p, get_file(cfg, fs, cat, p))
    /\ UNCHANGED <<cfg, it>>

PlaceFile ==
  \E cat \in HomeCats, p \in ArgsPlace :
    /\ Counted
    /\ Call("place_file", cat, p, place_file(cfg, fs, cat, p))
    /\ UNCHANGED <<cfg, it>>

CreateDirectory ==
  \E cat \in HomeCats, p \in ArgsPlace :
    /\ Counted
    /\ Call("create_directory", cat, p, create_dir(cfg, fs, cat, p))
    /\ UNCHANGED <<cfg, it>>

FindFileStep ==
  \E cat \in HomeCats, p \in Args :
    /\ Counted
    /\ Call("find_file", cat, p, find_file(cfg, fs, cat, p))
    /\ UNCHANGED <<cfg, it>>

GetHome ==
  \E cat \in HomeCats :
    /\ Counted
    /\ Call("get_home", cat, <<>>, get_home(cfg, fs, cat))
    /\ UNCHANGED <<cfg, it>>

GetDirs ==
  \E cat \in ListCats :
    /\ Counted
    /\ Call("get_dirs", cat, <<>>, get_dirs(cfg, fs, cat))
    /\ UNCHANGED <<cfg, it>>

InitPaths ==
  /\ cfg \in Configs
  /\ fs \in InitFSPaths(cfg)
  /\ op = Idle
  /\ it = NoIter
  /\ hist = NoHist

NextPaths ==
  \/ GetFile
  \/ PlaceFile
  \/ CreateDirectory
  \/ FindFileStep
  \/ GetHome
  \/ GetDirs

SpecPaths == InitPaths /\ [][NextPaths]_vars

----------------------------------------------------------------------------
(* SpecList: list_X_files and list_X_files_once, after the environment may *)
(* have made one of the listed directories unreadable.  ord is the order   *)
(* in which read_dir hands out a directory's entries during the call.      *)
ArgsListing == ArgsList \cup { <<"f">>, <<".">> }

\* The directories a listing reads.
ListedDirs(b) ==
  {Key(join(join(HomeOf(b, c)[1], b.user_prefix), p)) :
     c \in {x \in HomeCats : HomeOf(b, x) # None}, p \in ArgsListing}
  \cup {Key(join(join(d, b.shared_prefix), p)) :
     d \in Range(b.config_dirs) \cup Range(b.data_dirs), p \in ArgsListing}

Unreadable == S_IFDIR + 192   \* S_IFDIR | 0o300

ExtChmodUnreadable ==
  /\ op.name = "init"
  /\ \E d \in ListedDirs(cfg) \cap DOMAIN fs.dirs :
       /\ d # <<>>
       /\ fs' = [fs EXCEPT !.dirs[d] = Unreadable]
  /\ op' = [name |-> "ext", cat |-> "", arg |-> <<>>, ret |-> <<>>]
  /\ UNCHANGED <<cfg, it, hist>>

Listed(name, cat, p, ord, r) ==
  /\ op' = [name |-> name, cat |-> cat, arg |-> p, ret |-> r.ret, ord |-> ord]
  /\ fs' = r.fs

\* Each behaviour makes one listing call.
NotListedYet == op.name \in {"init", "ext"}

ListFiles ==
  /\ NotListedYet
  /\ \E cat \in HomeCats, p \in ArgsListing, ord \in Orders :
       /\ Listed("list_files", cat, p, ord, list_X_files(cfg, fs, cat, p, ord))
       /\ UNCHANGED <<cfg, it, hist>>

ListFilesOnce ==
  /\ NotListedYet
  /\ \E cat \in ListCats, p \in ArgsListing, ord \in Orders :
       /\ Listed("list_files_once", cat, p, ord, list_X_files_once(cfg, fs, cat, p, ord))
       /\ UNCHANGED <<cfg, it, hist>>

InitList ==
  /\ cfg \in Configs
  /\ fs \in InitFS(cfg, {RuntimeAbsent})
  /\ op = Idle
  /\ it = NoIter
  /\ hist = NoHist

NextList == ExtChmodUnreadable \/ ListFiles \/ ListFilesOnce

SpecList == InitList /\ [][NextList]_vars

----------------------------------------------------------------------------
(* SpecCtor: the six public constructors, applied to every combination of  *)
(* prefix, profile, explicit home, platform home and an environment in     *)
(* which at most MaxEnvSet of the XDG_* variables are set.                 *)
MaxEnvSet == 2

CtorPrefixes == { <<>>, <<"app">> }
CtorProfiles == { <<>>, <<"p1">>, <<Sep, "p">> }
CtorHomes == { <<>>, <<Sep, "h">>, <<"relh">> }
OsHomes == { None, Some(<<Sep, "oh">>), Some(<<"relh">>) }

HomeVars == {"XDG_DATA_HOME", "XDG_CONFIG_HOME", "XDG_CACHE_HOME", "XDG_STATE_HOME"}
ListVars == {"XDG_DATA_DIRS", "XDG_CONFIG_DIRS"}

HomeVals == { <<Sep, "c">>, <<"rel">>, <<>> }
ListVals == { <<>>, <<"rel">>, <<"rel", ListSep, "rel2">>,
              <<Sep, "A", ListSep, Sep, "B">>,
              <<Sep, "D", ListSep, "rel", ListSep, Sep, "A">>,
              <<ListSep, Sep, "A">> }
RuntimeVals == { <<Sep, "run">>, <<"rel">> }

ValsOf(v) ==
  IF v \in HomeVars THEN HomeVals ELSE IF v \in ListVars THEN ListVals ELSE RuntimeVals

CtorEnvs ==
  UNION {{[v \in EnvVars |-> IF v \in S THEN Some(g[v]) ELSE None] :
            g \in {h \in [S -> HomeVals \cup ListVals \cup RuntimeVals] :
                     \A v \in S : h[v] \in ValsOf(v)}} :
         S \in UpTo(EnvVars, MaxEnvSet)}

\* No BaseDirectories value exists before a constructor has run.
NoConfig ==
  [home_dir |-> None, user_prefix |-> <<>>, shared_prefix |-> <<>>,
   data_home |-> None, config_home |-> None, cache_home |-> None, state_home |-> None,
   data_dirs |-> <<>>, config_dirs |-> <<>>, runtime_dir |-> None]

Unbuilt == op.name = "init"

Built(name, prefix, profile, home, env_var, os_home, b) ==
  /\ cfg' = b
  /\ op' = [name |-> name, cat |-> "", ret |-> <<>>,
            arg |-> [prefix |-> prefix, profile |-> profile, home |-> home,
                     env_var |-> env_var, os_home |-> os_home]]
  /\ UNCHANGED <<fs, it, hist>>

New ==
  /\ Unbuilt
  /\ \E e \in CtorEnvs, oh \in OsHomes :
       Built("new", <<>>, <<>>, <<>>, e, oh, new(e, oh))

WithPrefix ==
  /\ Unbuilt
  /\ \E e \in CtorEnvs, pre \in CtorPrefixes, oh \in OsHomes :
       Built("with_prefix", pre, <<>>, <<>>, e, oh, with_prefix(pre, e, oh))

WithProfile ==
  /\ Unbuilt
  /\ \E e \in CtorEnvs, pre \in CtorPrefixes, pro \in CtorProfiles, oh \in OsHomes :
       Built("with_profile", pre, pro, <<>>, e, oh, with_profile(pre, pro, e, oh))

WithHome ==
  /\ Unbuilt
  /\ \E e \in CtorEnvs, h \in CtorHomes, oh \in OsHomes :
       Built("with_home", <<>>, <<>>, h, e, oh, with_home(h, e, oh))

WithHomePrefix ==
  /\ Unbuilt
  /\ \E e \in CtorEnvs, h \in CtorHomes, pre \in CtorPrefixes, oh \in OsHomes :
       Built("with_home_prefix", pre, <<>>, h, e, oh, with_home_prefix(h, pre, e, oh))

WithHomeProfile ==
  /\ Unbuilt
  /\ \E e \in CtorEnvs, h \in CtorHomes, pre \in CtorPrefixes,
        pro \in CtorProfiles, oh \in OsHomes :
       Built("with_home_profile", pre, pro, h, e, oh, with_home_profile(h, pre, pro, e, oh))

InitCtor ==
  /\ cfg = NoConfig
  /\ fs = MkFS(NoConfig, {}, RuntimeAbsent)
  /\ op = Idle
  /\ it = NoIter
  /\ hist = NoHist

NextCtor ==
  \/ New
  \/ WithPrefix
  \/ WithProfile
  \/ WithHome
  \/ WithHomePrefix
  \/ WithHomeProfile

SpecCtor == InitCtor /\ [][NextCtor]_vars

\* A constructor has run.
Constructed == op.name \in {"new", "with_prefix", "with_profile", "with_home",
                            "with_home_prefix", "with_home_profile"}

----------------------------------------------------------------------------
(* SpecPlace: up to MaxOps calls of place_X and create_X_directory, the    *)
(* runtime category included, with the outcome of each call remembered in  *)
(* hist.has.                                                               *)
AllCats == HomeCats \cup {"runtime"}

InitFSPlace(b) ==
  {MkFS(b, pr[1], pr[2]) :
     pr \in {q \in PathsFileSets(b) \X (IF b.runtime_dir = None THEN {RuntimeAbsent}
                                         ELSE RuntimeFew) :
              Compatible(b, q[1], q[2])}}

Logged(name, cat, p, r) ==
  /\ hist.n < MaxOps
  /\ hist' = [n |-> hist.n + 1,
              has |-> hist.has \cup {[name |-> name, cat |-> cat, arg |-> p, ok |-> r.ret.ok]}]
  /\ Call(name, cat, p, r)

PlaceAny ==
  \E cat \in AllCats, p \in ArgsPlace :
    /\ Logged("place", cat, p, place_any(cfg, fs, cat, p))
    /\ UNCHANGED <<cfg, it>>

CreateAny ==
  \E cat \in AllCats, p \in ArgsPlace :
    /\ Logged("create", cat, p, create_any(cfg, fs, cat, p))
    /\ UNCHANGED <<cfg, it>>

InitPlace ==
  /\ cfg \in Configs
  /\ fs \in InitFSPlace(cfg)
  /\ op = Idle
  /\ it = NoIter
  /\ hist = NoHist

NextPlace == PlaceAny \/ CreateAny

SpecPlace == InitPlace /\ [][NextPlace]_vars

----------------------------------------------------------------------------
(* SpecRoundTrip: place_data_file(p), the caller creating the file at the  *)
(* returned path, and find_data_file.  hist.has remembers the call, whether *)
(* the home-rooted candidate was missing before it, and the creation.       *)
Note(name, p, ok, val) == [name |-> name, arg |-> p, ok |-> ok, val |-> val]

PlaceDataFile ==
  /\ op.name = "init"
  /\ \E p \in ArgsPlace :
       LET r == place_data_file(cfg, fs, p)
           fresh == cfg.data_home # None
                    /\ ~path_exists(fs, join(join(cfg.data_home[1], cfg.user_prefix), p)) IN
       /\ Call("place_data_file", "data", p, r)
       /\ hist' = [hist EXCEPT !.has = {Note("place", p, r.ret.ok, r.ret.val),
                                        Note("fresh", p, fresh, <<>>)}]
       /\ UNCHANGED <<cfg, it>>

\* File::create(q) by the caller: q must name a file (no trailing
\* separator, no final ".") in an existing directory and must not be there yet.
CanCreateFile(f, q) ==
  /\ q # <<>> /\ ~TrailingSep(q) /\ q[Len(q)] \notin {Sep, "."}
  /\ parent(q) # None /\ (parent(q)[1] = <<>> \/ is_dir(f, parent(q)[1]))
  /\ ~path_exists(f, q)

ExtCreateFile ==
  /\ op.name = "place_data_file" /\ op.ret.ok
  /\ Note("fresh", op.arg, TRUE, <<>>) \in hist.has
  /\ CanCreateFile(fs, op.ret.val)
  /\ fs' = [fs EXCEPT !.files = @ \cup {Key(op.ret.val)}]
  /\ op' = [name |-> "created", cat |-> "data", arg |-> op.arg, ret |-> Some(op.ret.val)]
  /\ hist' = [hist EXCEPT !.has = @ \cup {Note("created", op.arg, TRUE, op.ret.val)}]
  /\ UNCHANGED <<cfg, it>>

FindDataFile ==
  /\ op.name \in {"place_data_file", "created"}
  /\ \E p \in Args :
       /\ Call("find_data_file", "data", p, find_data_file(cfg, fs, p))
       /\ UNCHANGED <<cfg, it, hist>>

InitRoundTrip ==
  /\ cfg \in Configs
  /\ fs \in InitFS(cfg, {RuntimeAbsent})
  /\ op = Idle
  /\ it = NoIter
  /\ hist = NoHist

NextRoundTrip == PlaceDataFile \/ ExtCreateFile \/ FindDataFile

SpecRoundTrip == InitRoundTrip /\ [][NextRoundTrip]_vars

----------------------------------------------------------------------------
(* SpecFrame: up to MaxOps read-only calls in any order: find_X,           *)
(* find_runtime_file, list_X_files, list_runtime_files, find_X_files and   *)
(* the steps of the iterator it returns.                                   *)
FindRuntimeFileStep ==
  \E p \in Args :
    /\ Counted
    /\ Call("find_runtime_file", "runtime", p, find_runtime_file(cfg, fs, p))
    /\ UNCHANGED <<cfg, it>>

ListFilesStep ==
  \E cat \in HomeCats, p \in ArgsList, ord \in Orders :
    /\ Counted
    /\ Listed("list_files", cat, p, ord, list_X_files(cfg, fs, cat, p, ord))
    /\ UNCHANGED <<cfg, it>>

ListRuntimeFilesStep ==
  \E p \in ArgsList, ord \in Orders :
    /\ Counted
    /\ Listed("list_runtime_files", "runtime", p, ord, list_runtime_files(cfg, fs, p, ord))
    /\ UNCHANGED <<cfg, it>>

FindFilesStep ==
  \E cat \in ListCats, p \in Args :
    /\ Counted
    /\ ~it.active
    /\ LET i == find_files(cfg, cat, p) IN
         it' = [active |-> TRUE, cat |-> cat, search_dirs |-> i.search_dirs,
                relpath |-> i.relpath, front |-> <<>>, back |-> <<>>, ended |-> FALSE]
    /\ op' = [name |-> "find_files", cat |-> cat, arg |-> p, ret |-> <<>>]
    /\ UNCHANGED <<cfg, fs>>

NextStep ==
  /\ Counted
  /\ it.active
  /\ LET r == FileFindIterator_next(fs, it.search_dirs, it.relpath) IN
       /\ it' = [it EXCEPT !.search_dirs = r.search_dirs,
                           !.front = IF IsSome(r.ret) THEN Append(@, r.ret[1]) ELSE @,
                           !.ended = ~IsSome(r.ret)]
       /\ op' = [name |-> "next", cat |-> it.cat, arg |-> it.relpath, ret |-> r.ret]
  /\ UNCHANGED <<cfg, fs>>

NextBackStep ==
  /\ Counted
  /\ it.active
  /\ LET r == FileFindIterator_next_back(fs, it.search_dirs, it.relpath) IN
       /\ it' = [it EXCEPT !.search_dirs = r.search_dirs,
                           !.back = IF IsSome(r.ret) THEN Append(@, r.ret[1]) ELSE @,
                           !.ended = ~IsSome(r.ret)]
       /\ op' = [name |-> "next_back", cat |-> it.cat, arg |-> it.relpath, ret |-> r.ret]
  /\ UNCHANGED <<cfg, fs>>

InitFrame ==
  /\ cfg \in Configs
  /\ fs \in InitFSPlace(cfg)
  /\ op = Idle
  /\ it = NoIter
  /\ hist = NoHist

NextFrame ==
  \/ FindFileStep
  \/ FindRuntimeFileStep
  \/ ListFilesStep
  \/ ListRuntimeFilesStep
  \/ FindFilesStep
  \/ NextStep
  \/ NextBackStep

SpecFrame == InitFrame /\ [][NextFrame]_vars

----------------------------------------------------------------------------
(* SpecLazy: one FileFindIterator over its whole life, next and next_back  *)
(* called in any order and also after the end, while other processes       *)
(* create and remove candidate files (at most MaxOps times).  The iterator *)
(* record also keeps: all, the search_dirs it was built with; fs0, the     *)
(* filesystem at that moment; probed, the directories whose candidate has  *)
(* been probed, in order; nones, how many calls returned None.             *)
LazyNew ==
  /\ ~it.active
  /\ \E cat \in ListCats, p \in Args :
       LET i == find_files(cfg, cat, p) IN
       /\ it' = [active |-> TRUE, cat |-> cat, search_dirs |-> i.search_dirs,
                  relpath |-> i.relpath, front |-> <<>>, back |-> <<>>, ended |-> FALSE,
                  all |-> i.search_dirs, fs0 |-> fs, probed |-> <<>>, nones |-> 0]
       /\ op' = [name |-> "find_files", cat |-> cat, arg |-> p, ret |-> <<>>]
       /\ UNCHANGED <<cfg, fs, hist>>

\* next() run against the filesystem f.  Every directory taken from
\* search_dirs has its candidate probed once.
LazyNextOn(f) ==
  /\ it.active /\ it.nones < 2
  /\ LET r == FileFindIterator_next(f, it.search_dirs, it.relpath)
         taken == SubSeq(it.search_dirs, 1, Len(it.search_dirs) - Len(r.search_dirs)) IN
       /\ it' = [it EXCEPT !.search_dirs = r.search_dirs,
                           !.front = IF IsSome(r.ret) THEN Append(@, r.ret[1]) ELSE @,
                           !.ended = @ \/ ~IsSome(r.ret),
                           !.probed = @ \o taken,
                           !.nones = IF IsSome(r.ret) THEN @ ELSE @ + 1]
       /\ op' = [name |-> "next", cat |-> it.cat, arg |-> it.relpath, ret |-> r.ret]
  /\ UNCHANGED <<cfg, fs, hist>>

\* Variant: existence as it was when the iterator was built.
LazyNext_at_construction == LazyNextOn(it.fs0)

LazyNext == LazyNextOn(fs)

LazyNextBack ==
  /\ it.active /\ it.nones < 2
  /\ LET r == FileFindIterator_next_back(fs, it.search_dirs, it.relpath)
         taken == SubSeq(it.search_dirs, Len(r.search_dirs) + 1, Len(it.search_dirs)) IN
       /\ it' = [it EXCEPT !.search_dirs = r.search_dirs,
                           !.back = IF IsSome(r.ret) THEN Append(@, r.ret[1]) ELSE @,
                           !.ended = @ \/ ~IsSome(r.ret),
                           !.probed = @ \o Reverse(taken),
                           !.nones = IF IsSome(r.ret) THEN @ ELSE @ + 1]
       /\ op' = [name |-> "next_back", cat |-> it.cat, arg |-> it.relpath, ret |-> r.ret]
  /\ UNCHANGED <<cfg, fs, hist>>

\* Another process makes the candidate q with the directories above it
\* (mkdir -p, touch), or removes it (rm).
WithFile(f, q) ==
  LET k == Key(q)
      ds == (DOMAIN f.dirs) \cup {Anc(k, i) : i \in 0..(Len(k) - 1)} IN
  [dirs |-> [d \in ds |-> IF d \in DOMAIN f.dirs THEN f.dirs[d] ELSE DefaultDirMode],
   files |-> f.files \cup {k}]

ExtCreateCandidate ==
  /\ it.active
  /\ \E d \in Range(it.all) :
       LET q == join(d, it.relpath)
           k == Key(q) IN
       /\ Counted
       /\ ~IsDir(fs, k) /\ ~IsFile(fs, k)
       /\ \A i \in 0..(Len(k) - 1) : ~IsFile(fs, Anc(k, i))
       /\ fs' = WithFile(fs, q)
       /\ op' = [name |-> "ext", cat |-> it.cat, arg |-> it.relpath, ret |-> Some(q)]
       /\ UNCHANGED <<cfg, it>>

ExtRemoveCandidate ==
  /\ it.active
  /\ \E d \in Range(it.all) :
       LET q == join(d, it.relpath) IN
       /\ Counted
       /\ IsFile(fs, Key(q))
       /\ fs' = [fs EXCEPT !.files = @ \ {Key(q)}]
       /\ op' = [name |-> "ext", cat |-> it.cat, arg |-> it.relpath, ret |-> Some(q)]
       /\ UNCHANGED <<cfg, it>>

InitLazy ==
  /\ cfg \in Configs
  /\ fs \in InitFSPaths(cfg)
  /\ op = Idle
  /\ it = NoIter
  /\ hist = NoHist

NextLazy ==
  \/ LazyNew
  \/ LazyNext
  \/ LazyNextBack
  \/ ExtCreateCandidate
  \/ ExtRemoveCandidate

SpecLazy == InitLazy /\ [][NextLazy]_vars

----------------------------------------------------------------------------
(* SpecGuard: one get_runtime_directory() call taken apart into its two    *)
(* system calls, fs::read_dir and fs::metadata, between which another      *)
(* process may remove, replace or chmod the directory.  op is the call in  *)
(* flight: pc its position, fs_rd and fs_md the filesystems the two system *)
(* calls saw.                                                              *)
InFlight(pc, ret, f_rd, f_md) ==
  [name |-> "get_runtime_directory", cat |-> "runtime", arg |-> <<>>,
   pc |-> pc, ret |-> ret, fs_rd |-> f_rd, fs_md |-> f_md]

GuardReadDir ==
  /\ op.name = "init"
  /\ IF cfg.runtime_dir = None
       THEN op' = InFlight("done", Error("XdgRuntimeDirMissing", <<>>, 0, ""), fs, fs)
     ELSE LET runtime_dir == cfg.runtime_dir[1]
              rd == fs_read_dir(fs, runtime_dir) IN
          IF ~rd.ok
            THEN op' = InFlight("done", Error("XdgRuntimeDirInaccessible", runtime_dir, 0, rd.err),
                                fs, fs)
          ELSE op' = InFlight("metadata", <<>>, fs, fs)
  /\ UNCHANGED <<cfg, fs, it, hist>>

GuardMetadata ==
  /\ op.name = "get_runtime_directory" /\ op.pc = "metadata"
  /\ LET runtime_dir == cfg.runtime_dir[1]
         md == fs_metadata(fs, runtime_dir) IN
       IF ~md.ok
         THEN op' = InFlight("done", Error("XdgRuntimeDirInaccessible", runtime_dir, 0, md.err),
                             op.fs_rd, fs)
       ELSE IF BitAnd(md.mode, InsecureMask) # 0
         THEN op' = InFlight("done", Error("XdgRuntimeDirInsecure", runtime_dir, md.mode, ""),
                             op.fs_rd, fs)
       ELSE op' = InFlight("done", Ok(runtime_dir), op.fs_rd, fs)
  /\ UNCHANGED <<cfg, fs, it, hist>>

ExtSetRuntimeMid ==
  /\ op.name = "get_runtime_directory" /\ op.pc = "metadata"
  /\ Counted
  /\ \E rt \in RuntimeStates :
       /\ fs' = SetRuntime(fs, RuntimeKey(cfg), rt)
       /\ fs' # fs
  /\ UNCHANGED <<cfg, op, it>>

InitGuard ==
  /\ cfg \in Configs
  /\ fs \in InitFSRuntime(cfg)
  /\ op = Idle
  /\ it = NoIter
  /\ hist = NoHist

NextGuard == GuardReadDir \/ GuardMetadata \/ ExtSetRuntimeMid

SpecGuard == InitGuard /\ [][NextGuard]_vars

----------------------------------------------------------------------------
(* SpecConc: two threads share one BaseDirectories and each runs the same  *)
(* place_X(p) or create_X_directory(p).  fs::create_dir_all is taken apart *)
(* into its system calls: every mkdir and every is_dir is a step of its    *)
(* own, and the steps of the two threads interleave freely.  A thread      *)
(* descends (up = FALSE) through the parents while mkdir answers NotFound, *)
(* keeping the paths it still has to make on its stack, then ascends.      *)
Threads == {1, 2}
ConcCats == {"config", "state", "runtime"}

Th(pc, cur, stack, up, err, ret, raced) ==
  [pc |-> pc, cur |-> cur, stack |-> stack, up |-> up, err |-> err, ret |-> ret,
   raced |-> raced]

ThStart == Th("start", <<>>, <<>>, FALSE, "", <<>>, FALSE)
ThDone(th, r) == [th EXCEPT !.pc = "done", !.ret = r]

\* What write_file / create_directory pass to fs::create_dir_all.
CreateTarget(kind, home, path) ==
  IF kind = "place"
    THEN (IF parent(path) # None THEN join(home, parent(path)[1]) ELSE home)
  ELSE join(home, path)

\* The directory at the top of the stack is in place: go on with the next one.
ThPop(th, r) ==
  IF th.stack = <<>> THEN ThDone(th, Ok(r))
  ELSE [th EXCEPT !.pc = "mkdir", !.cur = Head(th.stack), !.stack = Tail(th.stack),
                  !.up = TRUE]

\* Variant: an mkdir error is never forgiven.
mkdir_error_forgiven_never(f, path) == FALSE

\* Err(_) if path.is_dir() => Ok(())
mkdir_error_forgiven(f, path) == is_dir(f, path)

ConcRet == join(op.home, join(cfg.user_prefix, op.arg))

Spawn ==
  /\ op.name = "init"
  /\ \E kind \in {"place", "create"}, cat \in ConcCats, p \in ArgsPlace :
       op' = [name |-> kind, cat |-> cat, arg |-> p, ret |-> <<>>, fs0 |-> fs,
              home |-> <<>>, th |-> [t \in Threads |-> ThStart]]
  /\ UNCHANGED <<cfg, fs, it, hist>>

\* The part of the call before fs::create_dir_all: the root is resolved
\* (the runtime guard for the runtime category) and the paths are joined.
ThreadBegin(t) ==
  /\ op.name \in {"place", "create"} /\ op.th[t].pc = "start"
  /\ LET g == IF op.cat = "runtime" THEN get_runtime_directory(cfg, fs).ret
               ELSE IF HomeOf(cfg, op.cat) = None THEN Error("HomeMissing", <<>>, 0, "")
               ELSE Ok(HomeOf(cfg, op.cat)[1])
         path == join(cfg.user_prefix, op.arg)
         th == op.th[t] IN
       IF ~g.ok THEN op' = [op EXCEPT !.th[t] = ThDone(th, io_from(g))]
       ELSE LET dir == CreateTarget(op.name, g.val, path) IN
            IF dir = <<>>
              THEN op' = [op EXCEPT !.home = g.val, !.th[t] = ThDone(th, Ok(join(g.val, path)))]
            ELSE op' = [op EXCEPT !.home = g.val,
                                  !.th[t] = [th EXCEPT !.pc = "mkdir", !.cur = dir]]
  /\ UNCHANGED <<cfg, fs, it, hist>>

ThreadMkdir(t) ==
  /\ op.name \in {"place", "create"} /\ op.th[t].pc = "mkdir"
  /\ LET th == op.th[t]
         r == mkdir(fs, th.cur)
         par == parent(th.cur) IN
       /\ fs' = r.fs
       /\ IF r.err = "" THEN op' = [op EXCEPT !.th[t] = ThPop(th, ConcRet)]
          ELSE IF r.err = "NotFound" /\ ~th.up THEN
            (IF par = None THEN op' = [op EXCEPT !.th[t] = ThDone(th, IoError("Other"))]
             ELSE IF par[1] = <<>> THEN op' = [op EXCEPT !.th[t] = [th EXCEPT !.up = TRUE]]
             ELSE op' = [op EXCEPT !.th[t] = [th EXCEPT !.cur = par[1],
                                                        !.stack = <<th.cur>> \o th.stack]])
          ELSE op' = [op EXCEPT !.th[t] = [th EXCEPT !.pc = "is_dir", !.err = r.err]]
  /\ UNCHANGED <<cfg, it, hist>>

ThreadIsDir(t) ==
  /\ op.name \in {"place", "create"} /\ op.th[t].pc = "is_dir"
  /\ LET th == op.th[t] IN
       IF mkdir_error_forgiven(fs, th.cur)
         THEN op' = [op EXCEPT !.th[t] = ThPop([th EXCEPT !.raced = th.up], ConcRet)]
       ELSE op' = [op EXCEPT !.th[t] = ThDone(th, IoError(th.err))]
  /\ UNCHANGED <<cfg, fs, it, hist>>

InitConc ==
  /\ cfg \in Configs
  /\ fs \in InitFSPlace(cfg)
  /\ op = Idle
  /\ it = NoIter
  /\ hist = NoHist

NextConc ==
  \/ Spawn
  \/ \E t \in Threads : ThreadBegin(t) \/ ThreadMkdir(t) \/ ThreadIsDir(t)

SpecConc == InitConc /\ [][NextConc]_vars

----------------------------------------------------------------------------
(* The claims.  The candidates of a lookup, as the specification states    *)
(* them: base.join(active_prefix).join(p).                                 *)
HomeCand(b, cat, p) == join(join(HomeOf(b, cat)[1], b.user_prefix), p)
SysCand(b, cat, i, p) == join(join(DirsOf(b, cat)[i], b.shared_prefix), p)
HomeHit(b, f, cat, p) == HomeOf(b, cat) # None /\ path_exists(f, HomeCand(b, cat, p))
SysHits(b, f, cat, p) ==
  {i \in 1..Len(DirsOf(b, cat)) : path_exists(f, SysCand(b, cat, i, p))}
GuardOk(b, f) == get_runtime_directory(b, f).ret.ok
GuardKind(b, f) == get_runtime_directory(b, f).ret.kind

\* C1: find_config_file / find_data_file return the home-rooted candidate
\* whenever it exists; otherwise the candidate of the first system directory,
\* in stored order, that exists; and None only when no candidate exists.
C1_FindReturnsFirstExisting ==
  (op.name = "find_file" /\ op.cat \in ListCats) =>
    LET hits == SysHits(cfg, fs, op.cat, op.arg) IN
    IF HomeHit(cfg, fs, op.cat, op.arg) THEN op.ret = Some(HomeCand(cfg, op.cat, op.arg))
    ELSE IF hits # {} THEN
      \E i \in hits : (\A j \in hits : i <= j) /\ op.ret = Some(SysCand(cfg, op.cat, i, op.arg))
    ELSE op.ret = None

\* C1 witness: home and a system directory both hold the file, and the
\* home-rooted path came back.
C1_Witness ==
  /\ op.name = "find_file" /\ op.cat = "config"
  /\ HomeHit(cfg, fs, "config", op.arg)
  /\ \E i \in SysHits(cfg, fs, "config", op.arg) :
       ~PathEq(SysCand(cfg, "config", i, op.arg), HomeCand(cfg, "config", op.arg))
  /\ op.ret = Some(HomeCand(cfg, "config", op.arg))

\* The candidates of find_X_files from lowest to highest priority: the system
\* directories from last to first, then the home-rooted one.
LowToHigh(b, cat, p) ==
  LET n == Len(DirsOf(b, cat))
      sys == [i \in 1..n |-> SysCand(b, cat, n + 1 - i, p)] IN
  IF HomeOf(b, cat) # None THEN Append(sys, HomeCand(b, cat, p)) ELSE sys

Existing(f, cands) == SelectSeq(cands, LAMBDA c : path_exists(f, c))

\* C2: iterated forward to its end, find_config_files / find_data_files has
\* yielded exactly the existing candidates from lowest to highest priority
\* (system directories last to first, then home), and before the end a prefix
\* of them; with XDG_CONFIG_DIRS=/A:/B both holding f and no home copy the
\* result is [/B/f, /A/f].
C2_ForwardLowestToHighest ==
  (it.active /\ it.back = <<>>) =>
    LET want == Existing(fs, LowToHigh(cfg, it.cat, it.relpath)) IN
    /\ Len(it.front) <= Len(want)
    /\ it.front = SubSeq(want, 1, Len(it.front))
    /\ it.ended => it.front = want
    /\ (/\ it.ended /\ it.cat = "config" /\ it.relpath = <<"f">>
        /\ cfg.config_dirs = << <<Sep, "A">>, <<Sep, "B">> >>
        /\ cfg.shared_prefix = <<>>
        /\ path_exists(fs, <<Sep, "A", Sep, "f">>)
        /\ path_exists(fs, <<Sep, "B", Sep, "f">>)
        /\ ~HomeHit(cfg, fs, "config", <<"f">>))
         => it.front = << <<Sep, "B", Sep, "f">>, <<Sep, "A", Sep, "f">> >>

\* C2 witness: the A:B scenario, iterated forward to the end.
C2_Witness ==
  /\ it.active /\ it.ended /\ it.back = <<>>
  /\ it.cat = "config" /\ it.relpath = <<"f">>
  /\ cfg.config_dirs = << <<Sep, "A">>, <<Sep, "B">> >>
  /\ ~HomeHit(cfg, fs, "config", <<"f">>)
  /\ it.front = << <<Sep, "B", Sep, "f">>, <<Sep, "A", Sep, "f">> >>

\* What a fresh iterator yields when driven by next alone.
RECURSIVE Drain(_, _, _)
Drain(f, search_dirs, relpath) ==
  LET r == FileFindIterator_next(f, search_dirs, relpath) IN
  IF IsSome(r.ret) THEN <<r.ret[1]>> \o Drain(f, r.search_dirs, relpath) ELSE <<>>

FreshS(b, f, cat, p) ==
  LET i == find_files(b, cat, p) IN Drain(f, i.search_dirs, i.relpath)

\* C3: with S what a fresh forward iteration yields, under any interleaving
\* of next and next_back the calls to next have yielded a prefix of S, the
\* calls to next_back the reverse of a suffix of S, the two never overlap, and
\* when a call returns None every element of S has been yielded exactly once
\* (so next_back alone yields S reversed).
C3_DoubleEndedVisitsOnce ==
  it.active =>
    LET S == FreshS(cfg, fs, it.cat, it.relpath)
        nf == Len(it.front)
        nb == Len(it.back) IN
    /\ nf + nb <= Len(S)
    /\ it.front = SubSeq(S, 1, nf)
    /\ it.back = Reverse(SubSeq(S, Len(S) - nb + 1, Len(S)))
    /\ it.ended => nf + nb = Len(S)
    /\ (it.ended /\ nf = 0) => it.back = Reverse(S)

\* C3 witness: an iteration that took elements from both ends and ended.
C3_Witness ==
  /\ it.active /\ it.ended
  /\ Len(it.front) >= 1 /\ Len(it.back) >= 1
  /\ it.front # it.back

\* What the filesystem holds at the runtime directory's path.
RtReadable(b, f) == b.runtime_dir # None /\ fs_read_dir(f, b.runtime_dir[1]).ok
RtMode(b, f) == f.dirs[RuntimeKey(b)]
RtPermBits(b, f) == RtMode(b, f) % 512
RtGroupOther(b, f) == RtMode(b, f) % 64

PureGet(root, user_prefix, p) ==
  IF root = None THEN None ELSE Some(join(root[1], join(user_prefix, p)))

\* C6: every get_config_file / get_data_file / get_cache_file /
\* get_state_file call returns a value fixed by (category root, user_prefix,
\* p) alone, whatever the filesystem holds, leaves the filesystem exactly as
\* it was, and returns None exactly when the category root is None.
C6_GetIsPure ==
  [][op'.name = "get_file" =>
       /\ fs' = fs
       /\ op'.ret = PureGet(HomeOf(cfg, op'.cat), cfg.user_prefix, op'.arg)
       /\ (op'.ret = None) <=> (HomeOf(cfg, op'.cat) = None)]_vars

\* C6 witness: a second call, get_X on a path that does not exist, returned
\* the path and the path still does not exist.
C6_Witness ==
  /\ op.name = "get_file" /\ hist.n = 2
  /\ op.ret # None
  /\ ~path_exists(fs, op.ret[1])
  /\ ~path_exists(fs, HomeOf(cfg, op.cat)[1])

\* C7: every path returned by get_X, place_X and create_X_directory is
\* home.join(user_prefix).join(p); every path returned by find_X is that or
\* dir.join(shared_prefix).join(p) for a system directory dir; and
\* home.join(user_prefix.join(p)) is the same path as
\* home.join(user_prefix).join(p) for every category root and every p.
C7_PathsAreBasePrefixPath ==
  /\ (op.name = "get_file" /\ op.ret # None) =>
        op.ret[1] = HomeCand(cfg, op.cat, op.arg)
  /\ (op.name \in {"place_file", "create_directory"} /\ op.ret.ok) =>
        op.ret.val = HomeCand(cfg, op.cat, op.arg)
  /\ (op.name = "find_file" /\ op.ret # None) =>
        \/ HomeOf(cfg, op.cat) # None /\ op.ret[1] = HomeCand(cfg, op.cat, op.arg)
        \/ \E i \in 1..Len(DirsOf(cfg, op.cat)) : op.ret[1] = SysCand(cfg, op.cat, i, op.arg)
  /\ \A cat \in HomeCats \cup {"runtime"}, p \in ArgsPlace :
        HomeOf(cfg, cat) # None =>
          join(HomeOf(cfg, cat)[1], join(cfg.user_prefix, p)) = HomeCand(cfg, cat, p)

\* C7 witness: with a profile in use (user_prefix differs from
\* shared_prefix) place_X returned the home-rooted path for a nested p.
C7_Witness ==
  /\ op.name = "place_file" /\ op.ret.ok
  /\ cfg.user_prefix # cfg.shared_prefix
  /\ op.arg = <<"d", Sep, "f">>
  /\ op.ret.val = join(join(join(HomeOf(cfg, op.cat)[1], cfg.shared_prefix), <<"p1">>), op.arg)

\* C8: when place_config_file(p) (or the data, cache, state variant)
\* succeeds it returns the path get_X(p) returns, and after the call the
\* parent of that path is an existing directory.
C8_PlaceReturnsGetPathParentExists ==
  (op.name = "place_file" /\ op.ret.ok) =>
    /\ Some(op.ret.val) = get_file(cfg, fs, op.cat, op.arg).ret
    /\ parent(op.ret.val) # None
    /\ is_dir(fs, parent(op.ret.val)[1])

\* C8 witness: place_X succeeded for d/f and made the directory d that was
\* not there before the call.
C8_Witness ==
  /\ op.name = "place_file" /\ op.ret.ok /\ hist.n = 1
  /\ op.arg = <<"d", Sep, "f">>
  /\ is_dir(fs, parent(op.ret.val)[1])
  /\ fs.files = {}

\* The configuration of the profile scenario: prefix "app", profile "p1".
ProfileScenario ==
  /\ cfg.shared_prefix = <<"app">>
  /\ cfg.user_prefix = <<"app", Sep, "p1">>

\* The candidates of find_X(p) in that scenario, highest priority first,
\* written out: root/app/p1/p, then dir/app/p for each system directory.
ProfileCandidates(b, cat, p) ==
  (IF HomeOf(b, cat) # None
     THEN << HomeOf(b, cat)[1] \o <<Sep, "app", Sep, "p1", Sep>> \o p >> ELSE <<>>)
  \o [i \in 1..Len(DirsOf(b, cat)) |-> DirsOf(b, cat)[i] \o <<Sep, "app", Sep>> \o p]

\* C11: with prefix "app" and profile "p1", get_X_home() is root/app/p1,
\* get_X_dirs() is dir/app for each system directory, and find_X(p) for a
\* relative p returns the first existing path among root/app/p1/p and then
\* dir/app/p for each system directory: the profile is in the home candidate
\* only.
C11_ProfileOnlyUnderHome ==
  ProfileScenario =>
    /\ (op.name = "get_home" /\ HomeOf(cfg, op.cat) # None) =>
          op.ret = Some(HomeOf(cfg, op.cat)[1] \o <<Sep, "app", Sep, "p1">>)
    /\ op.name = "get_dirs" =>
          op.ret = [i \in 1..Len(DirsOf(cfg, op.cat)) |->
                      DirsOf(cfg, op.cat)[i] \o <<Sep, "app">>]
    /\ (op.name = "find_file" /\ ~is_absolute(op.arg)) =>
          LET hits == Existing(fs, ProfileCandidates(cfg, op.cat, op.arg)) IN
          op.ret = IF hits = <<>> THEN None ELSE Some(hits[1])

\* C11 witness: in the scenario find_config_file(f) returned /A/app/f, a
\* system candidate without the profile.
C11_Witness ==
  /\ ProfileScenario
  /\ op.name = "find_file" /\ op.cat = "config" /\ op.arg = <<"f">>
  /\ cfg.config_home # None
  /\ op.ret = Some(<<Sep, "A", Sep, "app", Sep, "f">>)

\* C18: place_X(p) and create_X_directory(p) called with the category root
\* None fail with HomeMissing, surfaced as an io::Error of kind NotFound, and
\* leave the filesystem as it was.
C18_HomeMissing ==
  [][(/\ op'.name \in {"place_file", "create_directory"}
      /\ HomeOf(cfg, op'.cat) = None)
       => (/\ ~op'.ret.ok
           /\ op'.ret.kind = "HomeMissing"
           /\ op'.ret.io = "NotFound"
           /\ fs' = fs)]_vars

\* C18 witness: create_cache_directory(d/f) failed with HomeMissing and d
\* does not exist anywhere.
C18_Witness ==
  /\ op.name = "create_directory" /\ op.cat = "cache" /\ op.arg = <<"d", Sep, "f">>
  /\ cfg.cache_home = None
  /\ ~op.ret.ok /\ op.ret.kind = "HomeMissing"
  /\ ~path_exists(fs, <<"d">>)

\* A directory whose entries can be read: every directory above it may be
\* searched, it is a directory and its owner may read it.
Listable(f, dir) ==
  LET k == Key(dir) IN
  /\ dir # <<>>
  /\ \A i \in 0..(Len(k) - 1) : IsDir(f, Anc(k, i)) /\ OwnerX(f.dirs[Anc(k, i)])
  /\ IsDir(f, k) /\ OwnerR(f.dirs[k])

\* The entries of dir as paths dir/name, in the order ord; none when dir is
\* missing, not a directory or unreadable.
EntriesOf(f, dir, ord) ==
  IF ~Listable(f, dir) THEN <<>>
  ELSE LET k == Key(dir)
           has(n) == (k \o <<n>>) \in (DOMAIN f.dirs) \cup f.files
           names == SelectSeq(ord, has) IN
       [i \in 1..Len(names) |->
          (IF dir[Len(dir)] = Sep THEN dir ELSE dir \o <<Sep>>) \o <<names[i]>>]

RECURSIVE SysEntries(_, _, _, _, _, _)
SysEntries(b, f, cat, p, ord, i) ==
  IF i > Len(DirsOf(b, cat)) THEN <<>>
  ELSE EntriesOf(f, SysCand(b, cat, i, p), ord) \o SysEntries(b, f, cat, p, ord, i + 1)

\* C20: list_X_files(p) is the entries of root.join(user_prefix).join(p)
\* (when the root is present) followed by the entries of
\* dir.join(shared_prefix).join(p) for each system directory in stored order;
\* a directory that is missing, is not a directory or cannot be read
\* contributes nothing, and the call returns a list in every case.
C20_ListIsConcatenation ==
  op.name = "list_files" =>
    op.ret = (IF HomeOf(cfg, op.cat) # None
                THEN EntriesOf(fs, HomeCand(cfg, op.cat, op.arg), op.ord) ELSE <<>>)
             \o SysEntries(cfg, fs, op.cat, op.arg, op.ord, 1)

\* C20 witness: list_config_files returned two entries, the first from the
\* home-rooted directory and the second from a system directory.
C20_Witness ==
  /\ op.name = "list_files" /\ op.cat = "config"
  /\ cfg.config_home # None
  /\ Len(op.ret) = 2
  /\ op.ret[1] \in Range(EntriesOf(fs, HomeCand(cfg, "config", op.arg), op.ord))
  /\ op.ret[2] \in Range(SysEntries(cfg, fs, "config", op.arg, op.ord, 1))
  /\ op.ret[1] # op.ret[2]

FinalComponent(p) == p[Len(p)]

\* The entries of L whose final component has not occurred earlier in L.
FirstByName(L) ==
  LET idx == [i \in 1..Len(L) |-> i]
      first(i) == \A j \in 1..(i - 1) : FinalComponent(L[j]) # FinalComponent(L[i])
      kept == SelectSeq(idx, first) IN
  [n \in 1..Len(kept) |-> L[kept[n]]]

Count(s, x) == Cardinality({i \in 1..Len(s) : s[i] = x})

\* C19: list_config_files_once(p) / list_data_files_once(p) is
\* list_X_files(p), read in the same directory order, filtered in order to
\* the first entry for each final path component: no two of its entries share
\* a final component, it is a sub-multiset of list_X_files(p), and it has an
\* entry for every file name list_X_files(p) has.
C19_OnceIsFirstByName ==
  op.name = "list_files_once" =>
    LET L == list_X_files(cfg, fs, op.cat, op.arg, op.ord).ret
        R == op.ret IN
    /\ R = FirstByName(L)
    /\ \A i \in 1..Len(R), j \in 1..Len(R) :
         i # j => FinalComponent(R[i]) # FinalComponent(R[j])
    /\ \A x \in Range(R) : Count(R, x) <= Count(L, x)
    /\ {FinalComponent(x) : x \in Range(L)} = {FinalComponent(x) : x \in Range(R)}

\* C19 witness: two directories hold an entry of the same name; the list has
\* both, the once-list only the first.
C19_Witness ==
  /\ op.name = "list_files_once"
  /\ Len(op.ret) = 1
  /\ LET L == list_X_files(cfg, fs, op.cat, op.arg, op.ord).ret IN
       /\ Len(L) = 2
       /\ L[1] # L[2]
       /\ FinalComponent(L[1]) = FinalComponent(L[2])
       /\ op.ret = <<L[1]>>

\* Path::starts_with: base's components (the root included) lead p's.
RootedComponents(p) == (IF is_absolute(p) THEN <<Sep>> ELSE <<>>) \o components(p)
starts_with(p, base) ==
  LET c == RootedComponents(p)
      b == RootedComponents(base) IN
  Len(b) <= Len(c) /\ SubSeq(c, 1, Len(b)) = b

\* C12 as stated: after any constructor, for every prefix and profile,
\* user_prefix = prefix.join(profile), shared_prefix = prefix and user_prefix
\* has shared_prefix as a path prefix.
C12_UserPrefixExtendsShared ==
  Constructed =>
    /\ cfg.shared_prefix = op.arg.prefix
    /\ cfg.user_prefix = join(op.arg.prefix, op.arg.profile)
    /\ starts_with(cfg.user_prefix, cfg.shared_prefix)

\* C12 failing state: with_profile("app", "/p") built a configuration whose
\* user_prefix is /p.
C12_AbsoluteProfile ==
  /\ op.name = "with_profile"
  /\ op.arg.prefix = <<"app">> /\ op.arg.profile = <<Sep, "p">>
  /\ cfg.shared_prefix = <<"app">>
  /\ cfg.user_prefix = <<Sep, "p">>

\* C13 as stated: after any constructor, each of data_home, config_home,
\* cache_home and state_home that is not None is an absolute path.
C13_HomeRootsAbsolute ==
  Constructed =>
    \A cat \in HomeCats : HomeOf(cfg, cat) # None => is_absolute(HomeOf(cfg, cat)[1])

\* C13 failing state: with_home("relh") in an empty environment built the
\* relative config root relh/.config.
C13_RelativeHome ==
  /\ op.name = "with_home"
  /\ op.arg.home = <<"relh">>
  /\ op.arg.env_var = EnvNone
  /\ cfg.config_home = Some(<<"relh", Sep, ".config">>)

RootVar(cat) ==
  CASE cat = "data" -> "XDG_DATA_HOME"
    [] cat = "config" -> "XDG_CONFIG_HOME"
    [] cat = "cache" -> "XDG_CACHE_HOME"
    [] cat = "state" -> "XDG_STATE_HOME"

RootSub(cat) ==
  CASE cat = "data" -> <<".local", Sep, "share">>
    [] cat = "config" -> <<".config">>
    [] cat = "cache" -> <<".cache">>
    [] cat = "state" -> <<".local", Sep, "state">>

PresentAbsolute(env_var, v) == env_var[v] # None /\ is_absolute(env_var[v][1])

\* The home a constructor call resolves: the explicit one when non-empty,
\* else the platform lookup.
ResolvedHome(a) == IF a.home # <<>> THEN Some(a.home) ELSE a.os_home

\* C14: after any constructor each home-relative root is its environment
\* variable's value when that is present and absolute, else home joined with
\* the default sub-path when a home exists, else None; the home is the
\* explicit override when non-empty, else the platform home lookup.
C14_HomeRootResolution ==
  Constructed =>
    LET home == ResolvedHome(op.arg) IN
    /\ cfg.home_dir = home
    /\ \A cat \in HomeCats :
         HomeOf(cfg, cat) =
           IF PresentAbsolute(op.arg.env_var, RootVar(cat)) THEN op.arg.env_var[RootVar(cat)]
           ELSE IF home # None THEN Some(home[1] \o <<Sep>> \o RootSub(cat))
           ELSE None

\* C14 witness: XDG_CONFIG_HOME relative, an explicit home: config_home is
\* home/.config, while XDG_DATA_HOME=/c is taken as it is.
C14_Witness ==
  /\ op.name = "with_home"
  /\ op.arg.home = <<Sep, "h">>
  /\ op.arg.env_var["XDG_CONFIG_HOME"] = Some(<<"rel">>)
  /\ op.arg.env_var["XDG_DATA_HOME"] = Some(<<Sep, "c">>)
  /\ cfg.config_home = Some(<<Sep, "h", Sep, ".config">>)
  /\ cfg.data_home = Some(<<Sep, "c">>)

DefaultDirs(v) ==
  IF v = "XDG_DATA_DIRS"
    THEN << <<Sep, "usr", Sep, "local", Sep, "share">>, <<Sep, "usr", Sep, "share">> >>
    ELSE << <<Sep, "etc", Sep, "xdg">> >>

DirsField(b, v) == IF v = "XDG_DATA_DIRS" THEN b.data_dirs ELSE b.config_dirs

AbsoluteEntries(env_var, v) ==
  IF env_var[v] = None THEN <<>> ELSE SelectSeq(split_paths(env_var[v][1]), is_absolute)

\* C15: after any constructor each system-wide list is the environment
\* value split at ":" with the non-absolute entries removed and the order of
\* the others kept, or the built-in default when nothing remains (unset,
\* empty, all relative); it is never empty.  /D:rel:/A gives [/D, /A], :/A
\* gives [/A], rel:rel2 gives the default.
C15_SystemListResolution ==
  Constructed =>
    \A v \in ListVars :
      LET kept == AbsoluteEntries(op.arg.env_var, v)
          raw == op.arg.env_var[v] IN
      /\ DirsField(cfg, v) = IF kept # <<>> THEN kept ELSE DefaultDirs(v)
      /\ DirsField(cfg, v) # <<>>
      /\ \A i \in 1..Len(DirsField(cfg, v)) : is_absolute(DirsField(cfg, v)[i])
      /\ raw = Some(<<Sep, "D", ListSep, "rel", ListSep, Sep, "A">>) =>
            DirsField(cfg, v) = << <<Sep, "D">>, <<Sep, "A">> >>
      /\ raw = Some(<<ListSep, Sep, "A">>) => DirsField(cfg, v) = << <<Sep, "A">> >>
      /\ raw \in {None, Some(<<>>), Some(<<"rel">>), Some(<<"rel", ListSep, "rel2">>)} =>
            DirsField(cfg, v) = DefaultDirs(v)

\* C15 witness: XDG_DATA_DIRS=/D:rel:/A gave [/D, /A] and
\* XDG_CONFIG_DIRS=rel:rel2 gave the default [/etc/xdg].
C15_Witness ==
  /\ Constructed
  /\ op.arg.env_var["XDG_DATA_DIRS"] = Some(<<Sep, "D", ListSep, "rel", ListSep, Sep, "A">>)
  /\ op.arg.env_var["XDG_CONFIG_DIRS"] = Some(<<"rel", ListSep, "rel2">>)
  /\ cfg.data_dirs = << <<Sep, "D">>, <<Sep, "A">> >>
  /\ cfg.config_dirs = << <<Sep, "etc", Sep, "xdg">> >>

\* A variable that is set but holds nothing absolute.
OnlyRelative(env_var, v) ==
  /\ env_var[v] # None
  /\ IF v \in ListVars THEN AbsoluteEntries(env_var, v) = <<>>
     ELSE ~is_absolute(env_var[v][1])

\* C16: for each XDG_* variable that holds a relative path (a list variable:
\* only relative entries), the configuration built equals the one built from
\* the same inputs with that variable unset; for XDG_RUNTIME_DIR both have
\* runtime_dir = None.
C16_RelativeIsUnset ==
  Constructed =>
    \A v \in EnvVars :
      OnlyRelative(op.arg.env_var, v) =>
        LET unset == with_env_impl(op.arg.prefix, op.arg.profile, op.arg.home,
                                   [op.arg.env_var EXCEPT ![v] = None], op.arg.os_home) IN
        /\ cfg = unset
        /\ v = "XDG_RUNTIME_DIR" => cfg.runtime_dir = None /\ unset.runtime_dir = None

\* C16 witness: XDG_RUNTIME_DIR and XDG_CACHE_HOME both relative: no runtime
\* directory, and the cache root is the home default.
C16_Witness ==
  /\ op.name = "with_home_prefix"
  /\ op.arg.home = <<Sep, "h">>
  /\ op.arg.env_var["XDG_RUNTIME_DIR"] = Some(<<"rel">>)
  /\ op.arg.env_var["XDG_CACHE_HOME"] = Some(<<"rel">>)
  /\ cfg.runtime_dir = None
  /\ cfg.cache_home = Some(<<Sep, "h", Sep, ".cache">>)

NoHomeResolved == Constructed /\ op.arg.home = <<>> /\ op.arg.os_home = None

\* C17 (amended): when no home can be resolved (no explicit override, the
\* platform lookup fails) the constructor still returns a configuration;
\* home_dir is None and each home-relative root is None unless its own
\* XDG_*_HOME variable holds an absolute path, which is then the root.
C17_NoHomeRootsFromEnvOnly ==
  NoHomeResolved =>
    /\ cfg.home_dir = None
    /\ \A cat \in HomeCats :
         HomeOf(cfg, cat) =
           IF PresentAbsolute(op.arg.env_var, RootVar(cat)) THEN op.arg.env_var[RootVar(cat)]
           ELSE None

\* C17 witness: no home, XDG_STATE_HOME relative: all four roots are None.
C17_Witness ==
  /\ NoHomeResolved
  /\ op.arg.env_var["XDG_STATE_HOME"] = Some(<<"rel">>)
  /\ \A cat \in HomeCats : HomeOf(cfg, cat) = None

\* C17 as stated: when no home can be resolved all four home-relative roots
\* are None.
C17_AsStated ==
  NoHomeResolved => \A cat \in HomeCats : HomeOf(cfg, cat) = None

\* C9: when the guard fails, get_runtime_file, place_runtime_file and
\* create_runtime_directory return the guard's error (same kind, path and
\* permissions), never a path, and leave the filesystem as it was.
C9_GuardErrorPropagates ==
  [][(/\ op'.name \in {"get_runtime_file", "place_runtime_file", "create_runtime_directory"}
      /\ ~GuardOk(cfg, fs))
       => (/\ ~op'.ret.ok
           /\ op'.ret.kind = GuardKind(cfg, fs)
           /\ op'.ret.kind \in {"XdgRuntimeDirMissing", "XdgRuntimeDirInaccessible",
                                 "XdgRuntimeDirInsecure"}
           /\ op'.ret = io_from(get_runtime_directory(cfg, fs).ret)
           /\ fs' = fs)]_vars

\* C9 witness: place_runtime_file refused an insecure runtime directory.
C9_Witness ==
  /\ op.name = "place_runtime_file"
  /\ ~op.ret.ok
  /\ op.ret.kind = "XdgRuntimeDirInsecure"
  /\ GuardKind(cfg, fs) = "XdgRuntimeDirInsecure"

\* C10: a failing runtime guard (missing, inaccessible or insecure) makes
\* find_runtime_file return None and list_runtime_files return the empty
\* list, and every find_X returns None when none of its candidates exists.
C10_FindFamilyDegradesToEmpty ==
  /\ (op.name = "find_runtime_file" /\ ~GuardOk(cfg, fs)) => op.ret = None
  /\ (op.name = "list_runtime_files" /\ ~GuardOk(cfg, fs)) => op.ret = <<>>
  /\ (op.name = "find_runtime_file" /\ ~HomeHit(cfg, fs, "runtime", op.arg)) => op.ret = None
  /\ (op.name = "find_file" /\ ~HomeHit(cfg, fs, op.cat, op.arg)
        /\ SysHits(cfg, fs, op.cat, op.arg) = {}) => op.ret = None

\* C10 witness: the runtime directory is insecure and holds the file asked
\* for, and find_runtime_file still answered None.
C10_Witness ==
  /\ op.name = "find_runtime_file"
  /\ GuardKind(cfg, fs) = "XdgRuntimeDirInsecure"
  /\ HomeHit(cfg, fs, "runtime", op.arg)
  /\ op.ret = None

\* C22: find_cache_file(p) and find_state_file(p) return the home-rooted
\* candidate when it exists and None otherwise; for a relative p they never
\* return a candidate of a system data or config directory, even when a
\* matching file exists there.
C22_CacheStateHomeOnly ==
  (op.name = "find_file" /\ op.cat \in {"cache", "state"}) =>
    /\ op.ret = IF HomeHit(cfg, fs, op.cat, op.arg)
                 THEN Some(HomeCand(cfg, op.cat, op.arg)) ELSE None
    /\ (op.ret # None /\ ~is_absolute(op.arg)) =>
          \A c \in ListCats : \A i \in 1..Len(DirsOf(cfg, c)) :
            /\ ~PathEq(op.ret[1], SysCand(cfg, c, i, op.arg))
            /\ ~starts_with(op.ret[1], join(DirsOf(cfg, c)[i], cfg.shared_prefix))

\* C22 witness: find_cache_file(f) returned None although a system data
\* directory and a system config directory both hold a matching file.
C22_Witness ==
  /\ op.name = "find_file" /\ op.cat = "cache" /\ op.arg = <<"f">>
  /\ cfg.cache_home # None
  /\ SysHits(cfg, fs, "data", <<"f">>) # {}
  /\ SysHits(cfg, fs, "config", <<"f">>) # {}
  /\ op.ret = None

\* C29: on an unchanging filesystem find_config_file(p) / find_data_file(p)
\* is the first item a fresh find_config_files(p) / find_data_files(p)
\* iterator returns from next_back(), and is None exactly when that iterator
\* yields nothing, from either end; the home root may be None.
C29_FindIsFirstNextBack ==
  it.active =>
    LET r == find_file(cfg, fs, it.cat, it.relpath).ret IN
    /\ (it.front = <<>> /\ Len(it.back) >= 1) => r = Some(it.back[1])
    /\ (it.front = <<>> /\ it.back = <<>> /\ it.ended) => r = None
    /\ r = None => (it.front = <<>> /\ it.back = <<>>)

\* C29 witness: without a home root, and the first system data directory
\* lacking the file, next_back() on a fresh iterator returned what
\* find_data_file returns: the second system directory's candidate.
C29_Witness ==
  /\ it.active /\ it.cat = "data" /\ it.front = <<>> /\ Len(it.back) = 1
  /\ cfg.data_home = None
  /\ SysHits(cfg, fs, "data", it.relpath) = {2}
  /\ it.back[1] = SysCand(cfg, "data", 2, it.relpath)
  /\ find_data_file(cfg, fs, it.relpath).ret = Some(it.back[1])

\* The keys of a directory and of everything above it.
UpToRoot(k) == {Anc(k, i) : i \in 0..Len(k)}

\* The category root can be used: it is set and, for the runtime category,
\* the guard lets it through.
RootUsable(b, f, cat) == HomeOf(b, cat) # None /\ (cat = "runtime" => GuardOk(b, f))

\* Nothing that was there is touched: the regular files and the old
\* directories with their modes.
OnlyAddsDirs(f, g) ==
  /\ g.files = f.files
  /\ \A d \in DOMAIN f.dirs : d \in DOMAIN g.dirs /\ g.dirs[d] = f.dirs[d]

\* C23: a successful create_X_directory(p) returns
\* root.join(user_prefix).join(p), and after it that full path is a
\* directory, as is every path above it; a call for a path that already is
\* a directory succeeds and changes nothing.
C23_CreateMakesFullPath ==
  [][op'.name = "create" =>
       /\ op'.ret.ok =>
             /\ op'.ret.val = HomeCand(cfg, op'.cat, op'.arg)
             /\ is_dir(fs', op'.ret.val)
             /\ UpToRoot(Key(op'.ret.val)) \subseteq DOMAIN fs'.dirs
             /\ DOMAIN fs'.dirs = (DOMAIN fs.dirs) \cup UpToRoot(Key(op'.ret.val))
             /\ OnlyAddsDirs(fs, fs')
       /\ (/\ RootUsable(cfg, fs, op'.cat)
           /\ is_dir(fs, HomeCand(cfg, op'.cat, op'.arg)))
             => (op'.ret.ok /\ fs' = fs)]_vars

\* C23 witness: create_X_directory(d/f) was called twice; both calls
\* succeeded and d/f is a directory.
C23_Witness ==
  /\ op.name = "create" /\ op.arg = <<"d", Sep, "f">> /\ op.ret.ok
  /\ hist.n = 2
  /\ hist.has = {[name |-> "create", cat |-> op.cat, arg |-> op.arg, ok |-> TRUE]}
  /\ is_dir(fs, op.ret.val)
  /\ Key(op.ret.val) = Key(HomeOf(cfg, op.cat)[1]) \o Key(cfg.user_prefix \o <<Sep>>) \o <<"d", "f">>

\* The directory place_X makes sure of: the parent of user_prefix.join(p)
\* below the base, or the base when that relative path has no parent.
Leading(b, cat, p) ==
  LET rel == join(b.user_prefix, p)
      base == HomeOf(b, cat)[1] IN
  IF parent(rel) # None THEN join(base, parent(rel)[1]) ELSE base

\* What every successful place_X(p) does: it adds the leading directory and
\* the directories above it, and nothing else.
PlaceEffect ==
  (op'.name = "place" /\ op'.ret.ok) =>
    /\ OnlyAddsDirs(fs, fs')
    /\ DOMAIN fs'.dirs = (DOMAIN fs.dirs) \cup UpToRoot(Key(Leading(cfg, op'.cat, op'.arg)))
    /\ is_dir(fs', Leading(cfg, op'.cat, op'.arg))
    /\ (op'.arg = <<"d", Sep, "f">> /\ ~path_exists(fs, op'.ret.val)) =>
          /\ is_dir(fs', join(join(HomeOf(cfg, op'.cat)[1], cfg.user_prefix), <<"d">>))
          /\ ~path_exists(fs', op'.ret.val)

ReadOnlyCalls == {"find_file", "find_runtime_file", "list_files", "list_runtime_files",
                  "find_files", "next", "next_back"}

\* C28: no find_X, find_X_files step or list_X_files call, of any category,
\* creates, removes or modifies a filesystem entry; in particular when
\* find_runtime_file("d/f") returns None and the directory d was missing, it
\* is still missing afterwards.
C28_LookupsLeaveFilesystem ==
  [][op'.name \in ReadOnlyCalls =>
       /\ fs' = fs
       /\ (/\ op'.name = "find_runtime_file" /\ op'.arg = <<"d", Sep, "f">>
           /\ op'.ret = None /\ cfg.runtime_dir # None
           /\ ~path_exists(fs, join(join(cfg.runtime_dir[1], cfg.user_prefix), <<"d">>)))
             => ~path_exists(fs', join(join(cfg.runtime_dir[1], cfg.user_prefix), <<"d">>))]_vars

\* C28 witness: find_runtime_file("d/f") passed the guard and returned None,
\* and neither d nor the prefix directory above it exists.
C28_Witness ==
  /\ op.name = "find_runtime_file" /\ op.arg = <<"d", Sep, "f">> /\ op.ret = None
  /\ GuardOk(cfg, fs)
  /\ cfg.user_prefix # <<>>
  /\ ~path_exists(fs, join(cfg.runtime_dir[1], cfg.user_prefix))
  /\ ~path_exists(fs, join(join(cfg.runtime_dir[1], cfg.user_prefix), <<"d">>))

\* The directories find_X_files searches, lowest priority first: the system
\* directories from last to first, then the home directory.
SearchOrder(b, cat) ==
  LET n == Len(DirsOf(b, cat))
      sys == [i \in 1..n |-> join(DirsOf(b, cat)[n + 1 - i], b.shared_prefix)] IN
  IF HomeOf(b, cat) # None THEN Append(sys, join(HomeOf(b, cat)[1], b.user_prefix)) ELSE sys

\* The positions of dirs whose candidate exists in f.
Hits(f, dirs, relpath) == {i \in 1..Len(dirs) : path_exists(f, join(dirs[i], relpath))}

\* A directory whose candidate came to exist, or ceased to exist, after the
\* iterator was built.
CreatedSince(d) ==
  ~path_exists(it.fs0, join(d, it.relpath)) /\ path_exists(fs, join(d, it.relpath))
RemovedSince(d) ==
  path_exists(it.fs0, join(d, it.relpath)) /\ ~path_exists(fs, join(d, it.relpath))

\* C25: the iterator's list of directories is the one fixed by
\* find_X_files and only shrinks from its two ends; each next() / next_back()
\* returns the first (last) remaining candidate that exists in the filesystem
\* of that moment, so a candidate created since construction is yielded and
\* one removed since is skipped; and no directory is probed more often than it
\* occurs in the list.
C25_LazyProbing ==
  [][/\ op'.name = "find_files" =>
          /\ it'.all = SearchOrder(cfg, op'.cat)
          /\ it'.search_dirs = it'.all
     /\ (it.active /\ it'.active) =>
          /\ it'.all = it.all /\ it'.relpath = it.relpath
          /\ \E i \in 1..(Len(it.all) + 1), j \in 0..Len(it.all) :
                it'.search_dirs = SubSeq(it.all, i, j)
          /\ \A d \in Range(it.all) : Count(it'.probed, d) <= Count(it.all, d)
     /\ op'.name = "next" =>
          LET hits == Hits(fs, it.search_dirs, it.relpath) IN
          IF hits = {} THEN op'.ret = None /\ it'.search_dirs = <<>>
          ELSE LET m == CHOOSE i \in hits : \A j \in hits : i <= j IN
               /\ op'.ret = Some(join(it.search_dirs[m], it.relpath))
               /\ it'.search_dirs = SubSeq(it.search_dirs, m + 1, Len(it.search_dirs))
     /\ op'.name = "next_back" =>
          LET hits == Hits(fs, it.search_dirs, it.relpath) IN
          IF hits = {} THEN op'.ret = None /\ it'.search_dirs = <<>>
          ELSE LET m == CHOOSE i \in hits : \A j \in hits : i >= j IN
               /\ op'.ret = Some(join(it.search_dirs[m], it.relpath))
               /\ it'.search_dirs = SubSeq(it.search_dirs, 1, m - 1)
     /\ (op'.name = "next" /\ it.search_dirs # <<>>) =>
          /\ CreatedSince(Head(it.search_dirs)) =>
                op'.ret = Some(join(Head(it.search_dirs), it.relpath))
          /\ RemovedSince(Head(it.search_dirs)) =>
                /\ Head(it.search_dirs) \in Range(it'.probed)
                /\ op'.ret # Some(join(Head(it.search_dirs), it.relpath))]_vars

\* C25 witness: next() skipped the first directory, whose candidate was
\* removed after construction, and yielded the candidate of the second, which
\* was created after construction.
C25_Witness ==
  /\ it.active /\ op.name = "next" /\ ~is_absolute(it.relpath)
  /\ Len(it.all) >= 2 /\ Len(it.probed) = 2 /\ it.probed = SubSeq(it.all, 1, 2)
  /\ RemovedSince(it.all[1])
  /\ CreatedSince(it.all[2])
  /\ it.front = <<join(it.all[2], it.relpath)>>

\* C30: a next() / next_back() call probes at most the directories that
\* remain and takes each of them out of the list, so it ends; the items
\* yielded from both ends never number more than the system directories plus
\* one (plus none when the home root is None); and after a call has returned
\* None every call returns None, whatever is created in the meantime.
C30_IteratorEnds ==
  [][op'.name \in {"next", "next_back"} =>
       /\ Len(it'.probed) - Len(it.probed) <= Len(it.search_dirs)
       /\ Len(it'.search_dirs) = Len(it.search_dirs) - (Len(it'.probed) - Len(it.probed))
       /\ op'.ret # None => Len(it'.search_dirs) < Len(it.search_dirs)
       /\ op'.ret = None => it'.search_dirs = <<>>
       /\ Len(it'.front) + Len(it'.back)
            <= Len(DirsOf(cfg, it.cat)) + (IF HomeOf(cfg, it.cat) = None THEN 0 ELSE 1)
       /\ it.ended => op'.ret = None]_vars

\* C30 witness: the iterator had ended, a candidate was created afterwards,
\* and the next call returned None again.
C30_Witness ==
  /\ it.active /\ it.nones = 2 /\ op.name \in {"next", "next_back"} /\ op.ret = None
  /\ it.front = <<>> /\ it.back = <<>>
  /\ \E d \in Range(it.all) : CreatedSince(d)

\* What the two probes of a finished guard call found.
EnumOk == fs_read_dir(op.fs_rd, cfg.runtime_dir[1]).ok
StatOk == fs_metadata(op.fs_md, cfg.runtime_dir[1]).ok
StatBits == fs_metadata(op.fs_md, cfg.runtime_dir[1]).mode % 64

\* C26: when the runtime directory is configured, get_runtime_directory()
\* fails with Inaccessible whenever the enumeration failed (missing, not a
\* directory, unreadable) or the metadata read failed, whatever the
\* permission bits are; Insecure is returned only when both succeeded and
\* the mode read has a bit of 0o077; with no change in between the outcome is
\* that of the call made in one piece.
C26_InaccessibleBeforeInsecure ==
  (op.name = "get_runtime_directory" /\ op.pc = "done" /\ cfg.runtime_dir # None) =>
    /\ ~EnumOk => op.ret.kind = "XdgRuntimeDirInaccessible"
    /\ (EnumOk /\ ~StatOk) => op.ret.kind = "XdgRuntimeDirInaccessible"
    /\ op.ret.kind = "XdgRuntimeDirInsecure" => (EnumOk /\ StatOk /\ StatBits # 0)
    /\ (EnumOk /\ StatOk) =>
          op.ret.kind = (IF StatBits # 0 THEN "XdgRuntimeDirInsecure" ELSE "Ok")
    /\ op.fs_rd = op.fs_md => op.ret = get_runtime_directory(cfg, op.fs_rd).ret

\* C26 witness: the directory has mode 0o370 (its owner may not read it,
\* its group may), and the guard answered Inaccessible.
C26_Witness ==
  /\ op.name = "get_runtime_directory" /\ op.pc = "done" /\ cfg.runtime_dir # None
  /\ IsDir(fs, RuntimeKey(cfg)) /\ RtPermBits(cfg, fs) = 248
  /\ ~EnumOk
  /\ op.ret.kind = "XdgRuntimeDirInaccessible" /\ op.ret.io = "PermissionDenied"

\* The same call made alone, in one piece, on the filesystem the two
\* threads started from.
SingleCall ==
  IF op.name = "place" THEN place_any(cfg, op.fs0, op.cat, op.arg)
  ELSE create_any(cfg, op.fs0, op.cat, op.arg)

InConc == op.name \in {"place", "create"} /\ "th" \in DOMAIN op
BothDone == InConc /\ \A t \in Threads : op.th[t].pc = "done"

\* C24: two threads run the same place_X(p) or create_X_directory(p) with
\* their mkdir and is_dir steps interleaved in any order.  Each thread ends
\* with the result the call has when made alone (so both succeed, with the
\* same path, whenever the call alone succeeds), and when both are done the
\* filesystem is the one the call alone leaves behind.
C24_ConcurrentCallsAgree ==
  InConc =>
    /\ \A t \in Threads : op.th[t].pc = "done" => op.th[t].ret = SingleCall.ret
    /\ BothDone => fs = SingleCall.fs

\* C24 witness: both threads succeeded with the same path after at least
\* one directory was made, and one of them found a directory it was about
\* to make already made by the other.
C24_Witness ==
  /\ BothDone
  /\ op.th[1].ret.ok /\ op.th[2].ret = op.th[1].ret
  /\ fs # op.fs0
  /\ \E t \in Threads : op.th[t].raced

====
